---- MODULE Spec2Model ----
(***************************************************************************)
(* Functional-dependency analysis of one query block                       *)
(* (st_select_lex::check_func_dep, sql/sql_func_dep.cc).                   *)
(*                                                                         *)
(* The state is the block being analysed (sl), the per-table tmp_set       *)
(* bitmaps ("Allowed-Sets"), the local lists of the analysis (mat_derived, *)
(* gb_items, eq_items), the errors raised through my_error, and the        *)
(* position of the analysis in check_func_dep (pc).                        *)
(*                                                                         *)
(* The Item and Field methods excl_func_dep_on_grouping_fields and         *)
(* excl_func_dep_from_equalities are implemented outside sql_func_dep.cc;  *)
(* they are modelled from the specification of the two expression          *)
(* capabilities.                                                           *)
(***************************************************************************)
EXTENDS Naturals, Integers, Sequences, FiniteSets, TLC

(* ----------------------------- bounds --------------------------------- *)
\* columns of the base table t1
MaxCols == 3
\* longest GROUP BY list
MaxGroup == 2
\* longest SELECT list
MaxSelect == 2
\* most top-level conjuncts of a WHERE clause
MaxWhere == 2

(* ------------------------ program constants --------------------------- *)
MAX_KEY == 64
\* select_number of the fake selects. UINT_MAX (4294967295) is beyond the
\* integers of the model checker; it is written as the 32-bit pattern read as
\* a signed number. select_number is only compared for equality.
UINT_MAX == -1
INT_MAX == 2147483647

(* ------------------------------ tables -------------------------------- *)
\* t1: base table of the block; d1, d2: materialized derived tables of the
\* block; o1: base table of the outer select.
Tables == {"t1", "d1", "d2", "o1"}

NumCols(t) == IF t = "t1" THEN MaxCols ELSE 2

Cols(t) == 1 .. NumCols(t)

\* TABLE_LIST::is_materialized_derived()
is_materialized_derived(t) == t \in {"d1", "d2"}

\* type handler for comparison of a column
ColType(t, c) == IF t = "t1" /\ c = 3 THEN "STRING" ELSE "INT"

\* KEY: user defined key parts and the HA_NOSAME flag
Key(parts, nosame) == [key_part |-> parts, HA_NOSAME |-> nosame]

\* TABLE_SHARE of t1: primary_key (MAX_KEY when there is none) and key_info.
\* The primary key, when there is one, is key_info[0].
Share(pk, keys) == [primary_key |-> pk, key_info |-> keys]

KeySchemes ==
  { Share(MAX_KEY, << >>),
    Share(0, << Key(<<1>>, TRUE) >>),
    Share(0, << Key(<<1, 2>>, TRUE) >>),
    Share(MAX_KEY, << Key(<<2>>, FALSE), Key(<<2, MaxCols>>, TRUE) >>),
    Share(0, << Key(<<1>>, TRUE), Key(<<2>>, FALSE), Key(<<MaxCols>>, TRUE) >>) }

NoKeys == Share(MAX_KEY, << >>)

\* share of table t in block q: only t1 carries keys
TableShare(q, t) == IF t = "t1" THEN q.share ELSE NoKeys

(* ------------------------------- items -------------------------------- *)
\* One record shape for every Item: type() / functype(), the Field of an
\* Item_field, type_handler_for_comparison() (for an equality:
\* compare_type_handler()), Item_func::is_deterministic, the arguments, and
\* the number of a subquery.
Item(type, functype, table, col, cmp, det, args, id) ==
  [type |-> type, functype |-> functype, table |-> table, col |-> col,
   cmp |-> cmp, det |-> det, args |-> args, id |-> id]

NoItem == Item("NULL", "", "", 0, "", TRUE, << >>, 0)

Fld(t, c) == Item("FIELD_ITEM", "", t, c, ColType(t, c), TRUE, << >>, 0)

Cst(ty) == Item("CONST_ITEM", "", "", 0, ty, TRUE, << >>, 0)

Ref(it) == Item("REF_ITEM", "", "", 0, it.cmp, TRUE, <<it>>, 0)

Fn(name, ty, det, args) == Item("FUNC_ITEM", name, "", 0, ty, det, args, 0)

Subq(id, refs) == Item("SUBSELECT_ITEM", "", "", 0, "INT", TRUE, refs, id)

\* comparison type of an equality: the common type of its two sides
CmpAggregate(l, r) == IF l = r THEN l ELSE "DOUBLE"

EqF(l, r) ==
  Item("FUNC_ITEM", "EQ_FUNC", "", 0, CmpAggregate(l.cmp, r.cmp), TRUE,
       <<l, r>>, 0)

AndC(args) == Item("COND_ITEM", "COND_AND_FUNC", "", 0, "INT", TRUE, args, 0)

\* Item::real_item(): looks through a reference
real_item(it) == IF it.type = "REF_ITEM" THEN it.args[1] ELSE it

\* Field of an Item_field
FieldOf(it) == [table |-> it.table, col |-> it.col]

(* --------------------------- bitmap helpers ---------------------------- *)
bitmap_is_set(ts, t, c) == c \in ts[t]

bitmap_set_bit(ts, t, c) == [ts EXCEPT ![t] = @ \cup {c}]

bitmap_set_all(ts, t) == [ts EXCEPT ![t] = Cols(t)]

bitmap_is_set_all(ts, t) == ts[t] = Cols(t)

bitmap_is_clear_all(ts, t) == ts[t] = {}

\* range of a sequence
Range(s) == {s[i] : i \in 1 .. Len(s)}

\* append f to the list unless it is already a member
AddField(fs, f) == IF f \in Range(fs) THEN fs ELSE Append(fs, f)

RECURSIVE AddFields(_, _)
AddFields(fs, gs) ==
  IF gs = << >> THEN fs ELSE AddFields(AddField(fs, Head(gs)), Tail(gs))

(* ------------------- the two expression capabilities ------------------- *)
\* Field::excl_func_dep_on_grouping_fields: the column is 'allowed'
Field_excl_func_dep_on_grouping_fields(fld, ts) ==
  bitmap_is_set(ts, fld.table, fld.col)

\* Item::excl_func_dep_on_grouping_fields(sl, gb_items, &item_arg):
\* capability (a). The item is built from constants and 'allowed' columns, or
\* it is one of the non-column GROUP BY items; otherwise item_arg is the first
\* offending column.
RECURSIVE excl_func_dep_on_grouping_fields(_, _, _)
RECURSIVE ExclArgsOnGrouping(_, _, _)
excl_func_dep_on_grouping_fields(it, ts, gbi) ==
  IF it \in Range(gbi) THEN [ok |-> TRUE, item_arg |-> NoItem]
  ELSE IF it.type = "FIELD_ITEM"
  THEN IF Field_excl_func_dep_on_grouping_fields(FieldOf(it), ts)
       THEN [ok |-> TRUE, item_arg |-> NoItem]
       ELSE [ok |-> FALSE, item_arg |-> it]
  ELSE IF it.type = "CONST_ITEM" THEN [ok |-> TRUE, item_arg |-> NoItem]
  ELSE ExclArgsOnGrouping(it.args, ts, gbi)

ExclArgsOnGrouping(args, ts, gbi) ==
  IF args = << >> THEN [ok |-> TRUE, item_arg |-> NoItem]
  ELSE LET r == excl_func_dep_on_grouping_fields(Head(args), ts, gbi)
       IN  IF r.ok THEN ExclArgsOnGrouping(Tail(args), ts, gbi) ELSE r

\* the column belongs to a leaf table of the block (not an outer reference)
IsLocal(q, t) == t \in Range(q.leaf_tables)

\* Item::excl_func_dep_from_equalities(sl, &item_arg, &fields):
\* capability (b). dep: the item is closed over 'allowed' columns and
\* constants; fields: the columns of the block's tables it is built from;
\* item_arg: the first outer column used that is not 'allowed'.
RECURSIVE excl_func_dep_from_equalities(_, _, _)
RECURSIVE ExclArgsFromEqualities(_, _, _, _)
excl_func_dep_from_equalities(it, q, ts) ==
  IF it.type = "FIELD_ITEM"
  THEN IF IsLocal(q, it.table)
       THEN [dep |-> bitmap_is_set(ts, it.table, it.col),
             item_arg |-> NoItem, fields |-> << FieldOf(it) >>]
       ELSE IF bitmap_is_set(ts, it.table, it.col)
            THEN [dep |-> TRUE, item_arg |-> NoItem, fields |-> << >>]
            ELSE [dep |-> FALSE, item_arg |-> it, fields |-> << >>]
  ELSE IF it.type = "CONST_ITEM"
  THEN [dep |-> TRUE, item_arg |-> NoItem, fields |-> << >>]
  ELSE ExclArgsFromEqualities(it.args, q, ts,
         [dep |-> TRUE, item_arg |-> NoItem, fields |-> << >>])

ExclArgsFromEqualities(args, q, ts, acc) ==
  IF args = << >> THEN acc
  ELSE LET r == excl_func_dep_from_equalities(Head(args), q, ts)
       IN  ExclArgsFromEqualities(Tail(args), q, ts,
             [dep |-> acc.dep /\ r.dep,
              item_arg |-> IF acc.item_arg # NoItem THEN acc.item_arg
                           ELSE r.item_arg,
              fields |-> AddFields(acc.fields, r.fields)])

(* ----------------------------- Key Closure ----------------------------- *)
\* are_key_fields_allowed(key): every part of the key is 'allowed'
are_key_fields_allowed(key, t, ts) ==
  \A i \in 1 .. Len(key.key_part) :
    Field_excl_func_dep_on_grouping_fields(
      [table |-> t, col |-> key.key_part[i]], ts)

\* KeyAllowsTable leaving the unique keys aside when there is a primary key
KeyAllowsTable_primary_only(share, t, ts) ==
  /\ ~ bitmap_is_set_all(ts, t)
  /\ IF share.primary_key < MAX_KEY
     THEN are_key_fields_allowed(share.key_info[share.primary_key + 1], t, ts)
     ELSE \E k \in 1 .. Len(share.key_info) :
            /\ share.key_info[k].HA_NOSAME
            /\ are_key_fields_allowed(share.key_info[k], t, ts)

\* body of the loop of check_allowed_unique_keys for one leaf table:
\* TRUE when the table's bitmap is to be set entirely
KeyAllowsTable(share, t, ts) ==
  /\ ~ bitmap_is_set_all(ts, t)
  /\ \/ /\ share.primary_key < MAX_KEY
        /\ are_key_fields_allowed(share.key_info[share.primary_key + 1], t, ts)
     \/ \E k \in 1 .. Len(share.key_info) :
          /\ share.key_info[k].HA_NOSAME
          /\ are_key_fields_allowed(share.key_info[k], t, ts)

\* check_allowed_unique_keys(sl): the bitmaps afterwards and the return value
RECURSIVE KeysOver(_, _, _)
KeysOver(q, tbls, r) ==
  IF tbls = << >> THEN r
  ELSE LET t == Head(tbls)
       IN  IF KeyAllowsTable(TableShare(q, t), t, r.ts)
           THEN KeysOver(q, Tail(tbls),
                  [ts |-> bitmap_set_all(r.ts, t), fields_extracted |-> TRUE])
           ELSE KeysOver(q, Tail(tbls), r)

\* a key closure that always reports an extraction
check_allowed_unique_keys_always_true(q, ts) ==
  [KeysOver(q, q.leaf_tables, [ts |-> ts, fields_extracted |-> FALSE])
     EXCEPT !.fields_extracted = TRUE]

check_allowed_unique_keys(q, ts) ==
  KeysOver(q, q.leaf_tables, [ts |-> ts, fields_extracted |-> FALSE])

(* ------------------------ Derived-Table Closure ------------------------ *)
\* check_allowed_materialized_derived(mat_derived): the bitmaps and the list
\* afterwards, and the return value
RECURSIVE DerivedOver(_, _)
DerivedOver(md, r) ==
  IF md = << >> THEN r
  ELSE LET t == Head(md)
       IN  IF bitmap_is_clear_all(r.ts, t)
           THEN DerivedOver(Tail(md),
                  [r EXCEPT !.mat_derived = Append(@, t)])
           ELSE DerivedOver(Tail(md),
                  [r EXCEPT !.ts = bitmap_set_all(@, t)])

\* check_allowed_materialized_derived that looks at the first table of the
\* list only
check_allowed_materialized_derived_head_only(md, ts) ==
  IF md = << >> THEN [ts |-> ts, mat_derived |-> md, ret |-> FALSE]
  ELSE LET r == DerivedOver(<< Head(md) >>, [ts |-> ts, mat_derived |-> << >>])
       IN  [ts |-> r.ts, mat_derived |-> r.mat_derived \o Tail(md),
            ret |-> r.mat_derived = << >>]

check_allowed_materialized_derived(md, ts) ==
  LET r == DerivedOver(md, [ts |-> ts, mat_derived |-> << >>])
  IN  [ts |-> r.ts, mat_derived |-> r.mat_derived,
       ret |-> Len(md) # Len(r.mat_derived)]

(* -------------------------- Group-By Collector ------------------------- *)
\* the GROUP BY item is a column, or a reference to a column
IsGbField(it) ==
  \/ it.type = "FIELD_ITEM"
  \/ it.type = "REF_ITEM" /\ real_item(it).type = "FIELD_ITEM"

\* the loop over group_list taking only Item_field for a column, not a
\* reference to one
RECURSIVE GbOver_fields_only(_, _)
GbOver_fields_only(gl, r) ==
  IF gl = << >> THEN r
  ELSE LET ord_item == Head(gl)
       IN  IF ord_item.type = "FIELD_ITEM"
           THEN GbOver_fields_only(Tail(gl),
                  [r EXCEPT !.ts = bitmap_set_bit(@, ord_item.table, ord_item.col)])
           ELSE GbOver_fields_only(Tail(gl),
                  [r EXCEPT !.gb_items = Append(@, ord_item)])

\* the loop over group_list of collect_gb_fields
RECURSIVE GbOver(_, _)
GbOver(gl, r) ==
  IF gl = << >> THEN r
  ELSE LET ord_item == Head(gl)
           real_it == real_item(ord_item)
       IN  IF IsGbField(ord_item)
           THEN GbOver(Tail(gl),
                  [r EXCEPT !.ts = bitmap_set_bit(@, real_it.table, real_it.col)])
           ELSE GbOver(Tail(gl),
                  [r EXCEPT !.gb_items = Append(@, ord_item)])

\* collect_gb_fields(sl, mat_derived, gb_items). marked: the bitmaps handed
\* to check_allowed_unique_keys.
collect_gb_fields(q, ts, md) ==
  IF Len(q.group_list) = 0
  THEN [ts |-> ts, gb_items |-> << >>, mat_derived |-> md,
        called_keys |-> FALSE, marked |-> ts, keyed |-> ts]
  ELSE LET g == GbOver(q.group_list, [ts |-> ts, gb_items |-> << >>])
           k == check_allowed_unique_keys(q, g.ts)
           d == check_allowed_materialized_derived(md, k.ts)
       IN  [ts |-> d.ts, gb_items |-> g.gb_items,
            mat_derived |-> d.mat_derived,
            called_keys |-> TRUE, marked |-> g.ts, keyed |-> k.ts]

(* --------------------------- Equality Closure -------------------------- *)
\* extract_new_func_dep_field without the bitmap_set_all for a column of a
\* materialized derived table
extract_new_func_dep_field_one_bit(eq, dp_part, nd_part, ts) ==
  IF \/ real_item(nd_part).type # "FIELD_ITEM"
     \/ dp_part.cmp # eq.cmp
  THEN [ok |-> FALSE, ts |-> ts]
  ELSE IF bitmap_is_set(ts, nd_part.table, nd_part.col)
  THEN [ok |-> FALSE, ts |-> ts]
  ELSE [ok |-> TRUE, ts |-> bitmap_set_bit(ts, nd_part.table, nd_part.col)]

\* extract_new_func_dep_field without the test of the comparison type
extract_new_func_dep_field_any_type(eq, dp_part, nd_part, ts) ==
  IF real_item(nd_part).type # "FIELD_ITEM"
  THEN [ok |-> FALSE, ts |-> ts]
  ELSE IF bitmap_is_set(ts, nd_part.table, nd_part.col)
  THEN [ok |-> FALSE, ts |-> ts]
  ELSE LET marked == bitmap_set_bit(ts, nd_part.table, nd_part.col)
       IN  [ok |-> TRUE,
            ts |-> IF is_materialized_derived(nd_part.table)
                   THEN bitmap_set_all(marked, nd_part.table)
                   ELSE marked]

\* extract_new_func_dep_field writing the bitmap instead of setting one bit
extract_new_func_dep_field_overwrite(eq, dp_part, nd_part, ts) ==
  IF \/ real_item(nd_part).type # "FIELD_ITEM"
     \/ dp_part.cmp # eq.cmp
  THEN [ok |-> FALSE, ts |-> ts]
  ELSE IF bitmap_is_set(ts, nd_part.table, nd_part.col)
  THEN [ok |-> FALSE, ts |-> ts]
  ELSE LET marked == [ts EXCEPT ![nd_part.table] = {nd_part.col}]
       IN  [ok |-> TRUE,
            ts |-> IF is_materialized_derived(nd_part.table)
                   THEN bitmap_set_all(marked, nd_part.table)
                   ELSE marked]

\* extract_new_func_dep_field(eq, dp_part, nd_part): the return value and the
\* bitmaps afterwards
extract_new_func_dep_field(eq, dp_part, nd_part, ts) ==
  IF \/ real_item(nd_part).type # "FIELD_ITEM"
     \/ dp_part.cmp # eq.cmp
  THEN [ok |-> FALSE, ts |-> ts]
  ELSE IF bitmap_is_set(ts, nd_part.table, nd_part.col)
  THEN [ok |-> FALSE, ts |-> ts]
  ELSE LET marked == bitmap_set_bit(ts, nd_part.table, nd_part.col)
       IN  [ok |-> TRUE,
            ts |-> IF is_materialized_derived(nd_part.table)
                   THEN bitmap_set_all(marked, nd_part.table)
                   ELSE marked]

\* Item_equal_fd_info
Item_equal_fd_info(eq, flds_l, flds_r) ==
  [equal |-> eq, fields_l |-> flds_l, fields_r |-> flds_r]

\* the non-determinism test at the head of check_equality_on_new_func_dep
IsNonDeterministic(it) == it.type = "FUNC_ITEM" /\ ~ it.det

\* check_equality_on_new_func_dep without the test of the number of columns
\* of the two sides
check_equality_on_new_func_dep_any_size(eq_item, q, ts, eqi) ==
  LET item_l == eq_item.args[1]
      item_r == eq_item.args[2]
      same == [err |-> FALSE, item_args |-> {}, ts |-> ts, eq_items |-> eqi]
      l == excl_func_dep_from_equalities(item_l, q, ts)
      r == excl_func_dep_from_equalities(item_r, q, ts)
      arg_l == l.item_arg
      args_lr == {l.item_arg, r.item_arg} \ {NoItem}
  IN  IF IsNonDeterministic(item_l) \/ IsNonDeterministic(item_r) THEN same
      ELSE IF ~ l.dep /\ l.fields = << >>
      THEN IF arg_l # NoItem
           THEN [same EXCEPT !.err = TRUE, !.item_args = {arg_l}]
           ELSE same
      ELSE IF \/ l.dep /\ r.dep
              \/ ~ r.dep /\ r.fields = << >>
      THEN IF args_lr # {}
           THEN [same EXCEPT !.err = TRUE, !.item_args = args_lr]
           ELSE same
      ELSE IF ~ l.dep /\ ~ r.dep
      THEN [same EXCEPT !.eq_items =
              Append(eqi, Item_equal_fd_info(eq_item, l.fields, r.fields))]
      ELSE IF l.dep
      THEN [same EXCEPT !.ts =
              extract_new_func_dep_field(eq_item, item_l, item_r, ts).ts]
      ELSE [same EXCEPT !.ts =
              extract_new_func_dep_field(eq_item, item_r, item_l, ts).ts]

\* check_equality_on_new_func_dep that reports no column found while
\* looking at the right side
check_equality_on_new_func_dep_left_only(eq_item, q, ts, eqi) ==
  LET item_l == eq_item.args[1]
      item_r == eq_item.args[2]
      same == [err |-> FALSE, item_args |-> {}, ts |-> ts, eq_items |-> eqi]
      l == excl_func_dep_from_equalities(item_l, q, ts)
      r == excl_func_dep_from_equalities(item_r, q, ts)
      arg_l == l.item_arg
  IN  IF IsNonDeterministic(item_l) \/ IsNonDeterministic(item_r) THEN same
      ELSE IF ~ l.dep /\ l.fields = << >>
      THEN IF arg_l # NoItem
           THEN [same EXCEPT !.err = TRUE, !.item_args = {arg_l}]
           ELSE same
      ELSE IF \/ l.dep /\ r.dep
              \/ ~ r.dep /\ r.fields = << >>
              \/ Len(l.fields) # 1 /\ Len(r.fields) # 1
      THEN same
      ELSE IF ~ l.dep /\ ~ r.dep
      THEN [same EXCEPT !.eq_items =
              Append(eqi, Item_equal_fd_info(eq_item, l.fields, r.fields))]
      ELSE IF l.dep
      THEN [same EXCEPT !.ts =
              extract_new_func_dep_field(eq_item, item_l, item_r, ts).ts]
      ELSE [same EXCEPT !.ts =
              extract_new_func_dep_field(eq_item, item_r, item_l, ts).ts]

\* check_equality_on_new_func_dep that drops the equalities of case 2
check_equality_on_new_func_dep_no_defer(eq_item, q, ts, eqi) ==
  LET item_l == eq_item.args[1]
      item_r == eq_item.args[2]
      same == [err |-> FALSE, item_args |-> {}, ts |-> ts, eq_items |-> eqi]
      l == excl_func_dep_from_equalities(item_l, q, ts)
      r == excl_func_dep_from_equalities(item_r, q, ts)
      arg_l == l.item_arg
      args_lr == {l.item_arg, r.item_arg} \ {NoItem}
  IN  IF IsNonDeterministic(item_l) \/ IsNonDeterministic(item_r) THEN same
      ELSE IF ~ l.dep /\ l.fields = << >>
      THEN IF arg_l # NoItem
           THEN [same EXCEPT !.err = TRUE, !.item_args = {arg_l}]
           ELSE same
      ELSE IF \/ l.dep /\ r.dep
              \/ ~ r.dep /\ r.fields = << >>
              \/ Len(l.fields) # 1 /\ Len(r.fields) # 1
      THEN IF args_lr # {}
           THEN [same EXCEPT !.err = TRUE, !.item_args = args_lr]
           ELSE same
      ELSE IF ~ l.dep /\ ~ r.dep
      THEN same
      ELSE IF l.dep
      THEN [same EXCEPT !.ts =
              extract_new_func_dep_field(eq_item, item_l, item_r, ts).ts]
      ELSE [same EXCEPT !.ts =
              extract_new_func_dep_field(eq_item, item_r, item_l, ts).ts]

\* check_equality_on_new_func_dep(eq_item, sl, eq_items): err is the return
\* value, ts and eq_items the bitmaps and the list afterwards. item_args
\* holds the columns my_error may name: the one local item_arg (line 400) is
\* handed to both calls of excl_func_dep_from_equalities (lines 413, 451),
\* so after the second call it is the column found in the one side that has
\* one, and when both sides have one it is either of the two, as the callee
\* keeps or overwrites a column already stored
check_equality_on_new_func_dep(eq_item, q, ts, eqi) ==
  LET item_l == eq_item.args[1]
      item_r == eq_item.args[2]
      same == [err |-> FALSE, item_args |-> {}, ts |-> ts, eq_items |-> eqi]
      l == excl_func_dep_from_equalities(item_l, q, ts)
      r == excl_func_dep_from_equalities(item_r, q, ts)
      arg_l == l.item_arg
      args_lr == {l.item_arg, r.item_arg} \ {NoItem}
  IN  IF IsNonDeterministic(item_l) \/ IsNonDeterministic(item_r) THEN same
      ELSE IF ~ l.dep /\ l.fields = << >>
      THEN IF arg_l # NoItem
           THEN [same EXCEPT !.err = TRUE, !.item_args = {arg_l}]
           ELSE same
      ELSE IF \/ l.dep /\ r.dep
              \/ ~ r.dep /\ r.fields = << >>
              \/ Len(l.fields) # 1 /\ Len(r.fields) # 1
      THEN IF args_lr # {}
           THEN [same EXCEPT !.err = TRUE, !.item_args = args_lr]
           ELSE same
      ELSE IF ~ l.dep /\ ~ r.dep
      THEN [same EXCEPT !.eq_items =
              Append(eqi, Item_equal_fd_info(eq_item, l.fields, r.fields))]
      ELSE IF l.dep
      THEN [same EXCEPT !.ts =
              extract_new_func_dep_field(eq_item, item_l, item_r, ts).ts]
      ELSE [same EXCEPT !.ts =
              extract_new_func_dep_field(eq_item, item_r, item_l, ts).ts]

\* a test of the deferred sides that never succeeds
FieldsAllowed_never(fs, ts) ==
  FALSE

\* every column of the list is 'allowed' (the dep_l / dep_r of the loop)
FieldsAllowed(fs, ts) ==
  \A i \in 1 .. Len(fs) : Field_excl_func_dep_on_grouping_fields(fs[i], ts)

\* an inner loop that removes every entry it examines
RECURSIVE RoundOver_remove_all(_, _)
RoundOver_remove_all(entries, r) ==
  IF entries = << >> THEN r
  ELSE LET eq_it == Head(entries)
           dep_l == FieldsAllowed(eq_it.fields_l, r.ts)
           dep_r == FieldsAllowed(eq_it.fields_r, r.ts)
           x == IF dep_l
                THEN extract_new_func_dep_field(eq_it.equal,
                       eq_it.equal.args[1], eq_it.equal.args[2], r.ts)
                ELSE extract_new_func_dep_field(eq_it.equal,
                       eq_it.equal.args[2], eq_it.equal.args[1], r.ts)
       IN  IF dep_l # dep_r
           THEN RoundOver_remove_all(Tail(entries),
                  [r EXCEPT !.ts = x.ts, !.extracted = @ \/ x.ok])
           ELSE RoundOver_remove_all(Tail(entries), r)

\* the inner while loop of step 4 of check_where_and_get_new_dependencies
\* over the entries of eq_items; kept: the entries left in the list
RECURSIVE RoundOver(_, _)
RoundOver(entries, r) ==
  IF entries = << >> THEN r
  ELSE LET eq_it == Head(entries)
           dep_l == FieldsAllowed(eq_it.fields_l, r.ts)
           dep_r == FieldsAllowed(eq_it.fields_r, r.ts)
           x == IF dep_l
                THEN extract_new_func_dep_field(eq_it.equal,
                       eq_it.equal.args[1], eq_it.equal.args[2], r.ts)
                ELSE extract_new_func_dep_field(eq_it.equal,
                       eq_it.equal.args[2], eq_it.equal.args[1], r.ts)
       IN  IF ~ dep_l /\ ~ dep_r
           THEN RoundOver(Tail(entries), [r EXCEPT !.kept = Append(@, eq_it)])
           ELSE IF ~ (dep_l /\ dep_r)
           THEN RoundOver(Tail(entries),
                  [r EXCEPT !.ts = x.ts, !.extracted = @ \/ x.ok])
           ELSE RoundOver(Tail(entries), r)

\* a round that does not call check_allowed_unique_keys
LoopRound_no_keys(q, ts, eqi) ==
  LET r == RoundOver(eqi, [ts |-> ts, kept |-> << >>, extracted |-> FALSE])
  IN  [ts |-> r.ts, eq_items |-> r.kept, extracted |-> r.extracted,
       called_keys |-> FALSE, scanned |-> r.ts]

\* a round that always leaves `extracted` set
LoopRound_always_extracted(q, ts, eqi) ==
  LET r == RoundOver(eqi, [ts |-> ts, kept |-> << >>, extracted |-> FALSE])
      call == ~ r.extracted \/ r.kept = << >>
      k == check_allowed_unique_keys(q, r.ts)
  IN  [ts |-> IF call THEN k.ts ELSE r.ts,
       eq_items |-> r.kept,
       extracted |-> TRUE,
       called_keys |-> call, scanned |-> r.ts]

\* one round of the outer while loop of step 4: the bitmaps, the list and
\* `extracted` afterwards
LoopRound(q, ts, eqi) ==
  LET r == RoundOver(eqi, [ts |-> ts, kept |-> << >>, extracted |-> FALSE])
      call == ~ r.extracted \/ r.kept = << >>
      k == check_allowed_unique_keys(q, r.ts)
  IN  [ts |-> IF call THEN k.ts ELSE r.ts,
       eq_items |-> r.kept,
       extracted |-> r.extracted \/ (call /\ k.fields_extracted),
       called_keys |-> call, scanned |-> r.ts]

\* the top-level conjuncts of the WHERE clause: the arguments of an AND, or
\* the condition itself
Conjuncts(cond) ==
  IF cond.type = "COND_ITEM" /\ cond.functype = "COND_AND_FUNC"
  THEN cond.args ELSE << cond >>

IsEquality(it) == it.type = "FUNC_ITEM" /\ it.functype = "EQ_FUNC"

(* ------------------------------ Validator ------------------------------ *)
\* are_select_list_fields_allowed returning after the first item
are_select_list_fields_allowed_head_only(items, ts, gbi) ==
  IF items = << >> THEN NoItem
  ELSE LET r == excl_func_dep_on_grouping_fields(Head(items), ts, gbi)
       IN  IF r.ok THEN NoItem ELSE real_item(r.item_arg)

\* are_select_list_fields_allowed going on after a failure: it names the last
\* failing item
RECURSIVE are_select_list_fields_allowed_last(_, _, _)
are_select_list_fields_allowed_last(items, ts, gbi) ==
  IF items = << >> THEN NoItem
  ELSE LET r == excl_func_dep_on_grouping_fields(Head(items), ts, gbi)
           later == are_select_list_fields_allowed_last(Tail(items), ts, gbi)
       IN  IF later # NoItem THEN later
           ELSE IF r.ok THEN NoItem ELSE real_item(r.item_arg)

\* are_select_list_fields_allowed(sl, gb_items): the item named by my_error,
\* NoItem when every item passes
RECURSIVE are_select_list_fields_allowed(_, _, _)
are_select_list_fields_allowed(items, ts, gbi) ==
  IF items = << >> THEN NoItem
  ELSE LET r == excl_func_dep_on_grouping_fields(Head(items), ts, gbi)
       IN  IF r.ok THEN are_select_list_fields_allowed(Tail(items), ts, gbi)
           ELSE real_item(r.item_arg)

\* are_having_fields_allowed with the test of `having` inverted
are_having_fields_allowed_inverted(having, ts, gbi) ==
  NoItem

\* are_having_fields_allowed(sl, having, gb_items): the item named by
\* my_error, NoItem when HAVING passes or is absent
are_having_fields_allowed(having, ts, gbi) ==
  IF having = NoItem THEN NoItem
  ELSE LET r == excl_func_dep_on_grouping_fields(having, ts, gbi)
       IN  IF r.ok THEN NoItem ELSE real_item(r.item_arg)

(* ---------------- UPDATE special case and subquery tags ---------------- *)
RECURSIVE SetAllOver(_, _)
SetAllOver(tbls, ts) ==
  IF tbls = << >> THEN ts
  ELSE SetAllOver(Tail(tbls), bitmap_set_all(ts, Head(tbls)))

\* a clearing loop that clears nothing
ClearAllOver_none(tbls, ts) ==
  ts

\* check_func_dep, lines 728-731: bitmap_clear_all over the leaf tables
RECURSIVE ClearAllOver(_, _)
ClearAllOver(tbls, ts) ==
  IF tbls = << >> THEN ts
  ELSE ClearAllOver(Tail(tbls), [ts EXCEPT ![Head(tbls)] = {}])

\* set_update_table_fields that does not look at the join of the outer select
set_update_table_fields_any_join(q, ts) ==
  IF ~ q.master_unit_item \/ ~ q.outer_select
  THEN ts
  ELSE SetAllOver(q.outer_leaf_tables, ts)

\* set_update_table_fields(sl)
set_update_table_fields(q, ts) ==
  IF ~ q.master_unit_item \/ ~ q.outer_select \/ q.outer_join
  THEN ts
  ELSE SetAllOver(q.outer_leaf_tables, ts)

\* the subqueries of an item
RECURSIVE SubqueriesOf(_)
SubqueriesOf(it) ==
  (IF it.type = "SUBSELECT_ITEM" THEN {it.id} ELSE {})
    \cup UNION {SubqueriesOf(it.args[i]) : i \in 1 .. Len(it.args)}

TagAll(ctx, ids, place) == [i \in DOMAIN ctx |-> IF i \in ids THEN place ELSE ctx[i]]

\* set_subqueries_context(sl)
set_subqueries_context(q, ctx) ==
  LET in_list == UNION {SubqueriesOf(q.item_list[i]) : i \in 1 .. Len(q.item_list)}
      c1 == TagAll(ctx, in_list, "SELECT_LIST")
      c2 == TagAll(c1, SubqueriesOf(q.conds), "IN_WHERE")
  IN  TagAll(c2, SubqueriesOf(q.having), "IN_HAVING")

(* ------------------------------- inputs -------------------------------- *)
\* the sequences over S of length lo .. hi
SeqsOf(S, lo, hi) == UNION {[1 .. n -> S] : n \in lo .. hi}

col_a == Fld("t1", 1)
col_b == Fld("t1", 2)
col_c == Fld("t1", 3)
col_last == Fld("t1", MaxCols)
col_dx == Fld("d1", 1)
col_dy == Fld("d1", 2)
col_ex == Fld("d2", 1)
col_ey == Fld("d2", 2)
col_ox == Fld("o1", 1)
col_oy == Fld("o1", 2)

Plus(x, y) == Fn("PLUS_FUNC", CmpAggregate(x.cmp, y.cmp), TRUE, <<x, y>>)
Rand == Fn("RAND_FUNC", "DOUBLE", FALSE, << >>)
Udf(x) == Fn("FUNC_SP", x.cmp, FALSE, <<x>>)
Gt(x) == Fn("GT_FUNC", "INT", TRUE, <<x, Cst(x.cmp)>>)

\* st_select_lex: the fields check_func_dep reads
Block(leaf, num, share, gl, il, hv, cn, unit_item, outer, ojoin) ==
  [leaf_tables |-> leaf, select_number |-> num, share |-> share,
   group_list |-> gl, item_list |-> il, having |-> hv, conds |-> cn,
   master_unit_item |-> unit_item, outer_select |-> outer,
   outer_join |-> ojoin,
   outer_leaf_tables |-> IF outer THEN << "o1" >> ELSE << >>]

\* WHERE clause made of the conjuncts ws
Where(ws) ==
  IF Len(ws) = 0 THEN NoItem ELSE IF Len(ws) = 1 THEN ws[1] ELSE AndC(ws)

\* blocks without WHERE and HAVING: keys, GROUP BY and SELECT list vary
GbItems == {col_a, col_b, Ref(col_last), Plus(col_a, col_b)}
SelItems == {col_b, col_dy}
KeyBlocks ==
  { Block(<<"t1", "d1">>, 1, sh, gl, il, NoItem, NoItem, FALSE, FALSE, FALSE) :
      sh \in KeySchemes, gl \in SeqsOf(GbItems, 0, MaxGroup),
      il \in SeqsOf(SelItems, 1, MaxSelect) }

\* blocks whose HAVING varies
HavingBlocks ==
  { Block(<<"t1", "d1">>, 1, Share(0, << Key(<<1, 2>>, TRUE) >>), gl, il, hv,
          cn, FALSE, FALSE, FALSE) :
      gl \in {<< >>, <<col_a>>, <<Plus(col_a, col_b)>>},
      il \in {<<col_a>>, <<col_b>>, <<Plus(col_a, col_b), col_c>>},
      hv \in {Gt(col_c), Gt(col_a), Gt(Plus(col_a, col_b))},
      cn \in {NoItem, EqF(col_c, Cst("STRING")), EqF(col_b, col_a)} }

\* blocks whose WHERE clause varies
WhereItems ==
  { EqF(col_b, col_a), EqF(col_c, col_b),
    EqF(Plus(col_a, Cst("INT")), col_b),
    EqF(col_b, Rand), EqF(col_b, Plus(col_a, Rand)), EqF(col_dx, col_b),
    Gt(col_b), EqF(Plus(col_a, col_b), Plus(col_b, col_dx)),
    EqF(col_c, Cst("STRING")) }
WhereBlocks ==
  { Block(<<"t1", "d1">>, 1, sh, gl, il, NoItem, Where(ws), FALSE, FALSE, FALSE) :
      sh \in {Share(0, << Key(<<1, 2>>, TRUE) >>),
              Share(MAX_KEY, << Key(<<2>>, FALSE), Key(<<2, MaxCols>>, TRUE) >>)},
      gl \in {<<col_a>>, <<col_c, Plus(col_a, col_b)>>, <<col_dx>>},
      il \in {<<col_b>>, <<col_c, col_dy>>},
      ws \in SeqsOf(WhereItems, 0, MaxWhere) }

\* blocks whose WHERE clause defers several equalities
LoopItems ==
  { EqF(col_b, col_a), EqF(col_dx, col_b), EqF(col_c, col_dx),
    EqF(col_dy, Plus(col_a, col_b)) }
LoopBlocks ==
  { Block(<<"t1", "d1">>, 1, sh, <<col_a>>, <<col_c, col_dy>>, NoItem,
          Where(ws), FALSE, FALSE, FALSE) :
      sh \in {Share(0, << Key(<<1, 2>>, TRUE) >>), NoKeys},
      ws \in SeqsOf(LoopItems, MaxWhere + 1, MaxWhere + 1) }

\* blocks that are subqueries: the outer select and its table o1
OuterWhereItems ==
  { EqF(col_ox, col_b), EqF(col_b, col_ox), Gt(col_oy),
    Gt(Subq(2, <<col_a>>)) }
OuterBlocks ==
  { Block(<<"t1">>, 1, Share(0, << Key(<<1>>, TRUE) >>), gl, il, hv, Where(ws),
          ui, TRUE, oj) :
      gl \in {<< >>, <<col_a>>},
      il \in {<<col_b>>, <<col_ox>>, <<Subq(1, <<col_b>>)>>},
      hv \in {NoItem, Gt(col_oy)},
      ws \in SeqsOf(OuterWhereItems, 0, MaxWhere),
      ui \in BOOLEAN, oj \in BOOLEAN }

\* blocks check_func_dep skips: no tables, or col_a fake select
SkippedBlocks ==
  { Block(leaf, num, NoKeys, <<col_a>>, il, NoItem, NoItem, FALSE, FALSE, FALSE) :
      leaf \in {<< >>, <<"t1">>}, num \in {1, UINT_MAX, INT_MAX},
      il \in {<<col_b>>, <<Subq(1, <<col_b>>)>>} }

\* blocks with two materialized derived tables
DerivedGbItems == {col_a, col_dx, col_ex}
DerivedBlocks ==
  { Block(<<"t1", "d1", "d2">>, 1, Share(0, << Key(<<1>>, TRUE) >>), gl, il,
          NoItem, Where(ws), FALSE, FALSE, FALSE) :
      gl \in SeqsOf(DerivedGbItems, 1, MaxGroup),
      il \in {<<col_dy>>, <<col_ey>>},
      ws \in {<< >>, <<EqF(col_ex, col_a)>>, <<EqF(col_ey, col_dx)>>} }

\* blocks whose WHERE clause is an equality over columns of the outer select
OuterEqItems ==
  { EqF(col_ox, col_oy), EqF(col_oy, col_ox), EqF(col_ox, col_b),
    EqF(col_b, col_oy), EqF(col_ox, Cst("INT")),
    EqF(Plus(col_b, col_ox), col_oy), EqF(col_oy, Plus(col_b, col_ox)) }
OuterEqBlocks ==
  { Block(<<"t1">>, 1, NoKeys, <<col_a>>, <<col_a>>, NoItem, Where(ws),
          FALSE, TRUE, TRUE) :
      ws \in SeqsOf(OuterEqItems, 1, 1) }

\* blocks whose GROUP BY holds an expression that is a side of an equality
GbExprItems ==
  { EqF(col_dy, Plus(col_a, col_b)), EqF(Plus(col_a, col_b), col_dx),
    EqF(col_c, Cst("STRING")), EqF(col_dx, Udf(col_b)) }
GbExprBlocks ==
  { Block(<<"t1", "d1">>, 1, NoKeys, gl, il, NoItem, Where(ws),
          FALSE, FALSE, FALSE) :
      gl \in {<<Plus(col_a, col_b)>>, <<col_c, Plus(col_a, col_b)>>},
      il \in {<<col_dy>>, <<Plus(col_a, col_b)>>},
      ws \in SeqsOf(GbExprItems, 1, 2) }

Blocks ==
  KeyBlocks \cup HavingBlocks \cup WhereBlocks \cup LoopBlocks
    \cup OuterBlocks \cup SkippedBlocks \cup DerivedBlocks
    \cup OuterEqBlocks \cup GbExprBlocks

\* what the bitmaps hold before the analysis: left by an earlier analysis
StaleSets(q) ==
  { [t \in Tables |-> IF t = "o1" THEN o ELSE IF full THEN Cols(t) ELSE {}] :
      o \in IF q.outer_select THEN {{}, {1}} ELSE {{}}, full \in BOOLEAN }

SubqIds == {1, 2}

(* ------------------------------- state --------------------------------- *)
VARIABLES
  sl,           \* the query block under analysis
  tmp_set,      \* TABLE::tmp_set of every table
  pc,           \* position in check_func_dep
  need_check,   \* local of check_func_dep
  mat_derived,  \* local list of check_func_dep
  gb_items,     \* local list of check_func_dep
  eq_items,     \* local list of check_where_and_get_new_dependencies
  eq_count,     \* local counter of check_where_and_get_new_dependencies
  cond_pos,     \* the iterator li over the conjuncts of the WHERE clause
  extracted,    \* local flag of the loop of step 4
  errors,       \* the my_error calls, in order
  ret,          \* return value of check_func_dep: "unset", "false", "true"
  subq_ctx,     \* the place tag of every subquery
  steps,        \* the steps of check_func_dep that have run
  key_call,     \* the latest call of check_allowed_unique_keys
  prev,         \* the state before the latest step after the clearing
  tmp_set0,     \* TABLE::tmp_set of every table when check_func_dep is entered
  rounds,       \* the iterations of the loop of step 4 that have run
  where_set     \* TABLE::tmp_set of every table when collect_gb_fields returns

vars == << sl, tmp_set, pc, need_check, mat_derived, gb_items, eq_items,
           eq_count, cond_pos, extracted, errors, ret, subq_ctx, steps,
           key_call, prev, tmp_set0, rounds,
           where_set >>

NoKeyCall == [called |-> FALSE, before |-> [t \in Tables |-> {}],
              after |-> [t \in Tables |-> {}]]

KeyCall(before, after) == [called |-> TRUE, before |-> before, after |-> after]

NoSnapshot ==
  [taken |-> FALSE, pc |-> "start", tmp_set |-> [t \in Tables |-> {}],
   eq_items |-> << >>, cond_pos |-> 1, errors |-> << >>]

Snapshot ==
  [taken |-> TRUE, pc |-> pc, tmp_set |-> tmp_set, eq_items |-> eq_items,
   cond_pos |-> cond_pos, errors |-> errors]

\* my_error(ER_NON_GROUPING_FIELD_USED, item->full_name(), clause)
my_error(item, clause) == [item |-> item, clause |-> clause]

Init ==
  /\ sl \in Blocks
  /\ tmp_set \in StaleSets(sl)
  /\ pc = "start"
  /\ need_check = FALSE
  /\ mat_derived = << >>
  /\ gb_items = << >>
  /\ eq_items = << >>
  /\ eq_count = 0
  /\ cond_pos = 1
  /\ extracted = FALSE
  /\ errors = << >>
  /\ ret = "unset"
  /\ subq_ctx = [i \in SubqIds |-> "NO_MATTER"]
  /\ steps = {}
  /\ key_call = NoKeyCall
  /\ prev = NoSnapshot
  /\ tmp_set0 = tmp_set
  /\ rounds = 0
  /\ where_set = tmp_set

\* the locals of check_where_and_get_new_dependencies
where_vars == << eq_items, eq_count, cond_pos, extracted >>

(* ------------------------------ actions -------------------------------- *)
\* an early return placed after the clearing loop and the tagging
SkipBlock_late ==
  /\ pc = "start"
  /\ UNCHANGED << tmp_set0, rounds, where_set >>
  /\ UNCHANGED prev
  /\ \/ sl.leaf_tables = << >>
     \/ sl.select_number = UINT_MAX
     \/ sl.select_number = INT_MAX
  /\ tmp_set' = ClearAllOver(sl.leaf_tables, tmp_set)
  /\ subq_ctx' = set_subqueries_context(sl, subq_ctx)
  /\ pc' = "done"
  /\ ret' = "false"
  /\ steps' = steps \cup {"skip"}
  /\ UNCHANGED << sl, need_check, mat_derived, gb_items, where_vars,
                  errors, key_call >>

\* check_func_dep, lines 715-718: no tables, or a fake select
SkipBlock ==
  /\ pc = "start"
  /\ UNCHANGED << tmp_set0, rounds, where_set >>
  /\ UNCHANGED prev
  /\ \/ sl.leaf_tables = << >>
     \/ sl.select_number = UINT_MAX
     \/ sl.select_number = INT_MAX
  /\ pc' = "done"
  /\ ret' = "false"
  /\ steps' = steps \cup {"skip"}
  /\ UNCHANGED << sl, tmp_set, need_check, mat_derived, gb_items, where_vars,
                  errors, subq_ctx, key_call >>

\* the materialized derived tables among the leaf tables, in order
RECURSIVE MatDerivedOf(_)
MatDerivedOf(tbls) ==
  IF tbls = << >> THEN << >>
  ELSE IF is_materialized_derived(Head(tbls))
       THEN << Head(tbls) >> \o MatDerivedOf(Tail(tbls))
       ELSE MatDerivedOf(Tail(tbls))

\* need_check that does not look at the join of the outer select
NeedCheck_any_outer(q) ==
  \/ Len(q.group_list) > 0
  \/ q.outer_select
  \/ q.having # NoItem

\* check_func_dep, lines 720-723
NeedCheck(q) ==
  \/ Len(q.group_list) > 0
  \/ q.outer_select /\ q.outer_join
  \/ q.having # NoItem

\* check_func_dep, lines 720-743: need_check, clearing of the bitmaps,
\* collection of the materialized derived tables
ClearSets ==
  /\ pc = "start"
  /\ UNCHANGED << tmp_set0, rounds, where_set >>
  /\ UNCHANGED prev
  /\ sl.leaf_tables # << >>
  /\ sl.select_number # UINT_MAX
  /\ sl.select_number # INT_MAX
  /\ need_check' = NeedCheck(sl)
  /\ tmp_set' = ClearAllOver(sl.leaf_tables, tmp_set)
  /\ mat_derived' = MatDerivedOf(sl.leaf_tables)
  /\ pc' = "update"
  /\ steps' = steps \cup {"clear"}
  /\ UNCHANGED << sl, gb_items, where_vars, errors, ret, subq_ctx, key_call >>

\* check_func_dep, line 744
SetUpdateTableFields ==
  /\ pc = "update"
  /\ UNCHANGED << tmp_set0, rounds, where_set >>
  /\ prev' = Snapshot
  /\ tmp_set' = set_update_table_fields(sl, tmp_set)
  /\ pc' = "tag"
  /\ steps' = steps \cup {"update"}
  /\ UNCHANGED << sl, need_check, mat_derived, gb_items, where_vars, errors,
                  ret, subq_ctx, key_call >>

\* check_func_dep, line 745
SetSubqueriesContext ==
  /\ pc = "tag"
  /\ UNCHANGED << tmp_set0, rounds, where_set >>
  /\ prev' = Snapshot
  /\ subq_ctx' = set_subqueries_context(sl, subq_ctx)
  /\ pc' = "nogroup"
  /\ steps' = steps \cup {"tag"}
  /\ UNCHANGED << sl, tmp_set, need_check, mat_derived, gb_items, where_vars,
                  errors, ret, key_call >>

\* check_func_dep, lines 747-760: no GROUP BY and no HAVING
MarkAllNoGroupBy ==
  /\ pc = "nogroup"
  /\ UNCHANGED << tmp_set0, rounds, where_set >>
  /\ prev' = Snapshot
  /\ Len(sl.group_list) = 0 /\ sl.having = NoItem
  /\ tmp_set' = SetAllOver(sl.leaf_tables, tmp_set)
  /\ IF ~ need_check
     THEN pc' = "done" /\ ret' = "false"
     ELSE pc' = "collect" /\ ret' = ret
  /\ steps' = steps \cup {"nogroup"}
  /\ UNCHANGED << sl, need_check, mat_derived, gb_items, where_vars, errors,
                  subq_ctx, key_call >>

\* check_func_dep, line 747, when the block has a GROUP BY or a HAVING
SkipNoGroupBy ==
  /\ pc = "nogroup"
  /\ UNCHANGED << tmp_set0, rounds, where_set >>
  /\ prev' = Snapshot
  /\ ~ (Len(sl.group_list) = 0 /\ sl.having = NoItem)
  /\ pc' = "collect"
  /\ UNCHANGED << sl, tmp_set, need_check, mat_derived, gb_items, where_vars,
                  errors, ret, subq_ctx, steps, key_call >>

\* check_func_dep, lines 762-765: collect_gb_fields
CollectGbFields ==
  /\ pc = "collect"
  /\ UNCHANGED << tmp_set0, rounds >>
  /\ prev' = Snapshot
  /\ LET r == collect_gb_fields(sl, tmp_set, mat_derived)
     IN  /\ tmp_set' = r.ts
         /\ where_set' = r.ts
         /\ gb_items' = r.gb_items
         /\ mat_derived' = r.mat_derived
         /\ key_call' = IF r.called_keys THEN KeyCall(r.marked, r.keyed)
                        ELSE key_call
  /\ pc' = "where"
  /\ steps' = steps \cup {"collect"}
  /\ UNCHANGED << sl, need_check, where_vars, errors, ret, subq_ctx >>

\* check_where_and_get_new_dependencies, lines 545-547: no WHERE clause
WhereAbsent ==
  /\ pc = "where"
  /\ UNCHANGED << tmp_set0, rounds, where_set >>
  /\ prev' = Snapshot
  /\ sl.conds = NoItem
  /\ pc' = "select"
  /\ steps' = steps \cup {"where"}
  /\ UNCHANGED << sl, tmp_set, need_check, mat_derived, gb_items, where_vars,
                  errors, ret, subq_ctx, key_call >>

\* check_where_and_get_new_dependencies, lines 566-572 and 585-591: the
\* conjunct under the iterator is an equality
WhereEquality ==
  /\ pc = "where"
  /\ UNCHANGED << tmp_set0, rounds, where_set >>
  /\ prev' = Snapshot
  /\ sl.conds # NoItem
  /\ cond_pos <= Len(Conjuncts(sl.conds))
  /\ IsEquality(Conjuncts(sl.conds)[cond_pos])
  /\ LET r == check_equality_on_new_func_dep(Conjuncts(sl.conds)[cond_pos],
                                             sl, tmp_set, eq_items)
     IN  IF r.err
         THEN /\ \E item_arg \in r.item_args :
                   errors' = Append(errors,
                               my_error(real_item(item_arg), "WHERE clause"))
              /\ ret' = "true"
              /\ pc' = "done"
              /\ eq_count' = eq_count + 1
              /\ UNCHANGED << tmp_set, eq_items, cond_pos >>
         ELSE /\ tmp_set' = r.ts
              /\ eq_items' = r.eq_items
              /\ eq_count' = eq_count + 1
              /\ cond_pos' = cond_pos + 1
              /\ UNCHANGED << errors, ret, pc >>
  /\ steps' = steps \cup {"where"}
  /\ UNCHANGED << sl, need_check, mat_derived, gb_items, extracted, subq_ctx,
                  key_call >>

\* WhereOther raising the error whenever the check fails, with or without a
\* column to name
WhereOther_any_failure ==
  /\ pc = "where"
  /\ UNCHANGED << tmp_set0, rounds, where_set >>
  /\ prev' = Snapshot
  /\ sl.conds # NoItem
  /\ cond_pos <= Len(Conjuncts(sl.conds))
  /\ ~ IsEquality(Conjuncts(sl.conds)[cond_pos])
  /\ LET r == excl_func_dep_from_equalities(Conjuncts(sl.conds)[cond_pos],
                                            sl, tmp_set)
     IN  IF ~ r.dep
         THEN /\ errors' = Append(errors,
                             my_error(real_item(r.item_arg), "WHERE clause"))
              /\ ret' = "true"
              /\ pc' = "done"
              /\ UNCHANGED cond_pos
         ELSE /\ cond_pos' = cond_pos + 1
              /\ UNCHANGED << errors, ret, pc >>
  /\ steps' = steps \cup {"where"}
  /\ UNCHANGED << sl, tmp_set, need_check, mat_derived, gb_items, eq_items,
                  eq_count, extracted, subq_ctx, key_call >>

\* WhereOther without the return after my_error
WhereOther_no_return ==
  /\ pc = "where"
  /\ UNCHANGED << tmp_set0, rounds, where_set >>
  /\ prev' = Snapshot
  /\ sl.conds # NoItem
  /\ cond_pos <= Len(Conjuncts(sl.conds))
  /\ ~ IsEquality(Conjuncts(sl.conds)[cond_pos])
  /\ LET r == excl_func_dep_from_equalities(Conjuncts(sl.conds)[cond_pos],
                                            sl, tmp_set)
     IN  IF ~ r.dep /\ r.item_arg # NoItem
         THEN errors' = Append(errors,
                          my_error(real_item(r.item_arg), "WHERE clause"))
         ELSE UNCHANGED errors
  /\ cond_pos' = cond_pos + 1
  /\ steps' = steps \cup {"where"}
  /\ UNCHANGED << sl, tmp_set, need_check, mat_derived, gb_items, eq_items,
                  eq_count, extracted, subq_ctx, key_call, ret, pc >>

\* check_where_and_get_new_dependencies, lines 573-582 and 592-601: the
\* conjunct under the iterator is not an equality
WhereOther ==
  /\ pc = "where"
  /\ UNCHANGED << tmp_set0, rounds, where_set >>
  /\ prev' = Snapshot
  /\ sl.conds # NoItem
  /\ cond_pos <= Len(Conjuncts(sl.conds))
  /\ ~ IsEquality(Conjuncts(sl.conds)[cond_pos])
  /\ LET r == excl_func_dep_from_equalities(Conjuncts(sl.conds)[cond_pos],
                                            sl, tmp_set)
     IN  IF ~ r.dep /\ r.item_arg # NoItem
         THEN /\ errors' = Append(errors,
                             my_error(real_item(r.item_arg), "WHERE clause"))
              /\ ret' = "true"
              /\ pc' = "done"
              /\ UNCHANGED cond_pos
         ELSE /\ cond_pos' = cond_pos + 1
              /\ UNCHANGED << errors, ret, pc >>
  /\ steps' = steps \cup {"where"}
  /\ UNCHANGED << sl, tmp_set, need_check, mat_derived, gb_items, eq_items,
                  eq_count, extracted, subq_ctx, key_call >>

\* WhereAfterPass without the return of step 3
WhereAfterPass_no_step3 ==
  /\ pc = "where"
  /\ UNCHANGED << tmp_set0, rounds, where_set >>
  /\ prev' = Snapshot
  /\ sl.conds # NoItem
  /\ cond_pos > Len(Conjuncts(sl.conds))
  /\ IF eq_items = << >>
     THEN LET k == check_allowed_unique_keys(sl, tmp_set)
          IN  /\ tmp_set' = k.ts
              /\ key_call' = KeyCall(tmp_set, k.ts)
              /\ pc' = "select"
              /\ steps' = steps \cup {"keys"}
              /\ UNCHANGED extracted
     ELSE /\ pc' = "loop"
          /\ extracted' = TRUE
          /\ UNCHANGED << tmp_set, key_call, steps >>
  /\ UNCHANGED << sl, need_check, mat_derived, gb_items, eq_items, eq_count,
                  cond_pos, errors, ret, subq_ctx >>

\* check_where_and_get_new_dependencies, lines 602-620: after the pass over
\* the conjuncts
WhereAfterPass ==
  /\ pc = "where"
  /\ UNCHANGED << tmp_set0, rounds, where_set >>
  /\ prev' = Snapshot
  /\ sl.conds # NoItem
  /\ cond_pos > Len(Conjuncts(sl.conds))
  /\ IF eq_items = << >>
     THEN LET k == check_allowed_unique_keys(sl, tmp_set)
          IN  /\ tmp_set' = k.ts
              /\ key_call' = KeyCall(tmp_set, k.ts)
              /\ pc' = "select"
              /\ steps' = steps \cup {"keys"}
              /\ UNCHANGED extracted
     ELSE IF eq_count = Len(eq_items)
     THEN /\ pc' = "select"
          /\ UNCHANGED << tmp_set, key_call, extracted, steps >>
     ELSE /\ pc' = "loop"
          /\ extracted' = TRUE
          /\ UNCHANGED << tmp_set, key_call, steps >>
  /\ UNCHANGED << sl, need_check, mat_derived, gb_items, eq_items, eq_count,
                  cond_pos, errors, ret, subq_ctx >>

\* check_where_and_get_new_dependencies, lines 625-664: one round of the
\* loop of step 4
WhereLoopRound ==
  /\ pc = "loop"
  /\ UNCHANGED << tmp_set0, where_set >>
  /\ rounds' = rounds + 1
  /\ prev' = Snapshot
  /\ extracted /\ eq_items # << >>
  /\ LET r == LoopRound(sl, tmp_set, eq_items)
     IN  /\ tmp_set' = r.ts
         /\ eq_items' = r.eq_items
         /\ extracted' = r.extracted
         /\ key_call' = IF r.called_keys THEN KeyCall(r.scanned, r.ts)
                        ELSE key_call
         /\ pc' = IF r.extracted /\ r.eq_items # << >> THEN "loop" ELSE "select"
  /\ steps' = steps \cup {"loop"}
  /\ UNCHANGED << sl, need_check, mat_derived, gb_items, eq_count, cond_pos,
                  errors, ret, subq_ctx >>

\* check_func_dep, line 776: are_select_list_fields_allowed
ValidateSelectList ==
  /\ pc = "select"
  /\ UNCHANGED << tmp_set0, rounds, where_set >>
  /\ prev' = Snapshot
  /\ LET bad == are_select_list_fields_allowed(sl.item_list, tmp_set, gb_items)
     IN  IF bad # NoItem
         THEN /\ errors' = Append(errors, my_error(bad, "SELECT list"))
              /\ ret' = "true"
              /\ pc' = "done"
         ELSE /\ pc' = "having"
              /\ UNCHANGED << errors, ret >>
  /\ steps' = steps \cup {"select"}
  /\ UNCHANGED << sl, tmp_set, need_check, mat_derived, gb_items, where_vars,
                  subq_ctx, key_call >>

\* check_func_dep, lines 777-780: are_having_fields_allowed
ValidateHaving ==
  /\ pc = "having"
  /\ UNCHANGED << tmp_set0, rounds, where_set >>
  /\ prev' = Snapshot
  /\ LET bad == are_having_fields_allowed(sl.having, tmp_set, gb_items)
     IN  IF bad # NoItem
         THEN /\ errors' = Append(errors, my_error(bad, "HAVING clause"))
              /\ ret' = "true"
         ELSE /\ ret' = "false"
              /\ UNCHANGED errors
  /\ pc' = "done"
  /\ steps' = steps \cup {"having"}
  /\ UNCHANGED << sl, tmp_set, need_check, mat_derived, gb_items, where_vars,
                  subq_ctx, key_call >>

Next ==
  \/ SkipBlock
  \/ ClearSets
  \/ SetUpdateTableFields
  \/ SetSubqueriesContext
  \/ MarkAllNoGroupBy
  \/ SkipNoGroupBy
  \/ CollectGbFields
  \/ WhereAbsent
  \/ WhereEquality
  \/ WhereOther
  \/ WhereAfterPass
  \/ WhereLoopRound
  \/ ValidateSelectList
  \/ ValidateHaving

Spec == Init /\ [][Next]_vars

(* ----------------------- the analysis as a function --------------------- *)
\* check_where_and_get_new_dependencies, lines 559-601: the pass over the
\* conjuncts cs from position i on
RECURSIVE WherePass(_, _, _, _, _, _)
WherePass(q, cs, i, ts, eqi, cnt) ==
  IF i > Len(cs)
  THEN [err |-> FALSE, ts |-> ts, eq_items |-> eqi, eq_count |-> cnt]
  ELSE IF IsEquality(cs[i])
  THEN LET r == check_equality_on_new_func_dep(cs[i], q, ts, eqi)
       IN  IF r.err
           THEN [err |-> TRUE, ts |-> ts, eq_items |-> eqi,
                 eq_count |-> cnt + 1]
           ELSE WherePass(q, cs, i + 1, r.ts, r.eq_items, cnt + 1)
  ELSE LET r == excl_func_dep_from_equalities(cs[i], q, ts)
       IN  IF ~ r.dep /\ r.item_arg # NoItem
           THEN [err |-> TRUE, ts |-> ts, eq_items |-> eqi, eq_count |-> cnt]
           ELSE WherePass(q, cs, i + 1, ts, eqi, cnt)

\* check_where_and_get_new_dependencies, lines 625-664: the loop of step 4,
\* entered with extracted true and a non-empty list
RECURSIVE WhereLoop(_, _, _)
WhereLoop(q, ts, eqi) ==
  LET r == LoopRound(q, ts, eqi)
  IN  IF r.extracted /\ r.eq_items # << >>
      THEN WhereLoop(q, r.ts, r.eq_items)
      ELSE r.ts

\* check_where_and_get_new_dependencies over the conjuncts cs
WhereOver(q, cs, ts) ==
  LET p == WherePass(q, cs, 1, ts, << >>, 0)
  IN  IF p.err THEN [err |-> TRUE, ts |-> p.ts]
      ELSE IF p.eq_items = << >>
      THEN [err |-> FALSE, ts |-> check_allowed_unique_keys(q, p.ts).ts]
      ELSE IF p.eq_count = Len(p.eq_items)
      THEN [err |-> FALSE, ts |-> p.ts]
      ELSE [err |-> FALSE, ts |-> WhereLoop(q, p.ts, p.eq_items)]

\* check_where_and_get_new_dependencies
check_where_and_get_new_dependencies(q, ts) ==
  IF q.conds = NoItem
  THEN [err |-> FALSE, ts |-> ts]
  ELSE WhereOver(q, Conjuncts(q.conds), ts)

\* st_select_lex::check_func_dep: return value, bitmaps on return, and
\* whether check_where_and_get_new_dependencies raised the error
check_func_dep(q, ts0) ==
  IF \/ q.leaf_tables = << >>
     \/ q.select_number = UINT_MAX
     \/ q.select_number = INT_MAX
  THEN [ret |-> "false", ts |-> ts0, where_err |-> FALSE]
  ELSE
    LET cleared == ClearAllOver(q.leaf_tables, ts0)
        updated == set_update_table_fields(q, cleared)
        nogroup == Len(q.group_list) = 0 /\ q.having = NoItem
        marked  == IF nogroup THEN SetAllOver(q.leaf_tables, updated)
                   ELSE updated
    IN  IF nogroup /\ ~ NeedCheck(q)
        THEN [ret |-> "false", ts |-> marked, where_err |-> FALSE]
        ELSE
          LET g == collect_gb_fields(q, marked, MatDerivedOf(q.leaf_tables))
              w == check_where_and_get_new_dependencies(q, g.ts)
          IN  IF w.err
              THEN [ret |-> "true", ts |-> w.ts, where_err |-> TRUE]
              ELSE IF are_select_list_fields_allowed(q.item_list, w.ts,
                                                     g.gb_items) # NoItem
              THEN [ret |-> "true", ts |-> w.ts, where_err |-> FALSE]
              ELSE IF are_having_fields_allowed(q.having, w.ts,
                                                g.gb_items) # NoItem
              THEN [ret |-> "true", ts |-> w.ts, where_err |-> FALSE]
              ELSE [ret |-> "false", ts |-> w.ts, where_err |-> FALSE]

(* ------------------------------- claims -------------------------------- *)
\* the columns an item is built from
RECURSIVE ColumnsIn(_)
ColumnsIn(it) ==
  (IF it.type = "FIELD_ITEM" THEN {FieldOf(it)} ELSE {})
    \cup UNION {ColumnsIn(it.args[i]) : i \in 1 .. Len(it.args)}

Allowed(f) == f.col \in tmp_set[f.table]

LeafTables == Range(sl.leaf_tables)

\* C1: once the clearing step of check_func_dep has finished, no step of the
\* run takes a bit out of any table's tmp_set: every later step only adds
\* bits or leaves the sets unchanged.
C1_AllowedSetsOnlyGrow ==
  prev.taken => \A t \in Tables : prev.tmp_set[t] \subseteq tmp_set[t]

\* a step after the clearing added bits to a bitmap that already held some
C1_Witness ==
  /\ prev.taken
  /\ \E t \in Tables : prev.tmp_set[t] # {} /\ prev.tmp_set[t] # tmp_set[t]
  /\ prev.pc = "loop"

\* the keys of table t that are the primary key or a unique key
UniqueKeys(t) ==
  LET share == TableShare(sl, t)
  IN  {share.key_info[k] : k \in
         {k \in 1 .. Len(share.key_info) :
            share.key_info[k].HA_NOSAME \/ k = share.primary_key + 1}}

KeyColumns(key) == Range(key.key_part)

\* GROUP BY lists every column of the primary key of t
GroupByHasPrimaryKey(t) ==
  LET share == TableShare(sl, t)
  IN  /\ share.primary_key < MAX_KEY
      /\ \A p \in KeyColumns(share.key_info[share.primary_key + 1]) :
           \E i \in 1 .. Len(sl.group_list) :
             /\ IsGbField(sl.group_list[i])
             /\ FieldOf(real_item(sl.group_list[i])) = [table |-> t, col |-> p]

\* every SELECT-list item is built only from columns of t
SelectListOver(t) ==
  \A i \in 1 .. Len(sl.item_list) :
    /\ \A f \in ColumnsIn(sl.item_list[i]) : f.table = t
    /\ SubqueriesOf(sl.item_list[i]) = {}

\* C2: for every leaf table T and every primary or unique key K of T, if all
\* columns of K are allowed when check_allowed_unique_keys is called, every
\* column of T is allowed when it returns; and a block whose GROUP BY lists
\* the full primary key of T is not rejected for a SELECT list built only
\* from columns of T (it passes when WHERE and HAVING raise nothing).
C2_KeyClosure ==
  /\ key_call.called =>
       \A t \in LeafTables : \A key \in UniqueKeys(t) :
         KeyColumns(key) \subseteq key_call.before[t]
           => key_call.after[t] = Cols(t)
  /\ \A t \in LeafTables :
       (pc = "done" /\ "clear" \in steps /\ GroupByHasPrimaryKey(t)
          /\ SelectListOver(t))
         => /\ \A i \in 1 .. Len(errors) : errors[i].clause # "SELECT list"
            /\ (sl.having = NoItem /\ sl.conds = NoItem) => ret = "false"

\* Key Closure was called with a unique key that is not the primary key
\* entirely allowed, on a table with a primary key and with columns still
\* not allowed
C2_Witness ==
  /\ key_call.called
  /\ TableShare(sl, "t1").primary_key < MAX_KEY
  /\ key_call.before["t1"] # Cols("t1")
  /\ \E key \in UniqueKeys("t1") :
       /\ key # TableShare(sl, "t1").key_info[1]
       /\ KeyColumns(key) \subseteq key_call.before["t1"]
  /\ key_call.after["t1"] = Cols("t1")

\* the latest step inspected a top-level equality of the WHERE clause in the
\* first pass; PrevEq is that equality
EqStepTaken ==
  /\ prev.taken
  /\ prev.pc = "where"
  /\ sl.conds # NoItem
  /\ prev.cond_pos <= Len(Conjuncts(sl.conds))
  /\ IsEquality(Conjuncts(sl.conds)[prev.cond_pos])

PrevEq == Conjuncts(sl.conds)[prev.cond_pos]

\* the item is or contains a non-deterministic function call
RECURSIVE ContainsNonDeterministic(_)
ContainsNonDeterministic(it) ==
  \/ IsNonDeterministic(it)
  \/ \E i \in 1 .. Len(it.args) : ContainsNonDeterministic(it.args[i])

\* the item is closed over 'allowed' columns and constants: it depends on
\* nothing else, so every column in it is 'allowed' and no function in it is
\* non-deterministic
ClosedOver(it, ts) ==
  /\ \A f \in ColumnsIn(it) : f.col \in ts[f.table]
  /\ ~ ContainsNonDeterministic(it)

\* the item is one bare column of the block that is not 'allowed'
BareOpen(it, ts) ==
  /\ it.type = "FIELD_ITEM"
  /\ IsLocal(sl, it.table)
  /\ it.col \notin ts[it.table]

\* C3: for a top-level WHERE equality A = B, in either orientation, with A
\* closed over allowed columns/constants and B one bare column not yet
\* allowed: B is allowed after the equality is processed if A's comparison
\* type is the equality's; otherwise the equality neither makes B allowed nor
\* is deferred.
C3_EqualityExtraction ==
  EqStepTaken =>
    \A i \in {1, 2} :
      LET A == PrevEq.args[i]
          B == PrevEq.args[3 - i]
      IN  (ClosedOver(A, prev.tmp_set) /\ BareOpen(B, prev.tmp_set)) =>
            IF A.cmp = PrevEq.cmp
            THEN Allowed(FieldOf(B))
            ELSE ~ Allowed(FieldOf(B)) /\ eq_items = prev.eq_items

\* an equality with the open column on the left and a closed function of an
\* allowed column on the right, comparison types matching, was processed
C3_Witness ==
  /\ EqStepTaken
  /\ BareOpen(PrevEq.args[1], prev.tmp_set)
  /\ ClosedOver(PrevEq.args[2], prev.tmp_set)
  /\ ColumnsIn(PrevEq.args[2]) # {}
  /\ PrevEq.args[2].cmp = PrevEq.cmp
  /\ Allowed(FieldOf(PrevEq.args[1]))

\* the same with the comparison types differing
C3_WitnessMismatch ==
  /\ EqStepTaken
  /\ BareOpen(PrevEq.args[2], prev.tmp_set)
  /\ ClosedOver(PrevEq.args[1], prev.tmp_set)
  /\ PrevEq.args[1].cmp # PrevEq.cmp
  /\ ~ Allowed(FieldOf(PrevEq.args[2]))

\* C4: a top-level WHERE equality with a non-deterministic function call at
\* any depth of either side makes no column allowed, is not added to the
\* deferred list and raises no error.
C4_NonDeterminismGuard ==
  (EqStepTaken /\ \E i \in {1, 2} : ContainsNonDeterministic(PrevEq.args[i]))
    => /\ tmp_set = prev.tmp_set
       /\ eq_items = prev.eq_items
       /\ errors = prev.errors

\* C5: a block that is not skipped, with an empty GROUP BY, no HAVING and no
\* outer select with a join, passes whatever its SELECT list and WHERE
\* clause are, without Group-By Collector, Equality Closure or Validator
\* running, and every column of its leaf tables is allowed on return.
C5_TrivialPass ==
  (/\ pc = "done"
   /\ "clear" \in steps
   /\ Len(sl.group_list) = 0
   /\ sl.having = NoItem
   /\ ~ (sl.outer_select /\ sl.outer_join))
    => /\ ret = "false"
       /\ errors = << >>
       /\ steps \cap {"collect", "where", "loop", "select", "having"} = {}
       /\ \A t \in LeafTables : tmp_set[t] = Cols(t)

\* such a block, a subquery of a select without join, whose SELECT list names
\* an outer column that is not allowed and whose WHERE is present, returned
C5_Witness ==
  /\ pc = "done"
  /\ "clear" \in steps
  /\ Len(sl.group_list) = 0
  /\ sl.having = NoItem
  /\ sl.outer_select /\ ~ sl.outer_join
  /\ sl.conds # NoItem
  /\ \E i \in 1 .. Len(sl.item_list) :
       \E f \in ColumnsIn(sl.item_list[i]) : ~ Allowed(f)
  /\ ret = "false"

\* every column SELECT-list item i is built from is allowed
ItemColumnsAllowed(i) == \A f \in ColumnsIn(sl.item_list[i]) : Allowed(f)

\* SELECT-list item i is a bare column that is not allowed
BareNotAllowed(i) ==
  sl.item_list[i].type = "FIELD_ITEM" /\ ~ Allowed(FieldOf(sl.item_list[i]))

\* SELECT-list item j passes the check of the Validator
ItemPasses(j) ==
  excl_func_dep_on_grouping_fields(sl.item_list[j], tmp_set, gb_items).ok

\* C6 as stated: for a block with a non-empty GROUP BY, a SELECT-list
\* expression that is a bare column not allowed in the final tmp_sets makes
\* the analysis fail with a "SELECT list" violation naming that column
C6_Original ==
  (pc = "done" /\ Len(sl.group_list) > 0) =>
    \A i \in 1 .. Len(sl.item_list) :
      BareNotAllowed(i) =>
        /\ ret = "true"
        /\ errors = << my_error(sl.item_list[i], "SELECT list") >>

\* C6: for a block with a non-empty GROUP BY whose analysis reaches the
\* Validator: if a SELECT-list expression is a bare column that is not allowed
\* in the final tmp_sets, the analysis fails with one violation, of clause
\* "SELECT list", naming the column found in the first SELECT-list
\* expression that fails the check: that very column when every expression
\* before it passes.
C6_SelectListViolation ==
  (pc = "done" /\ Len(sl.group_list) > 0 /\ "select" \in steps) =>
    \A i \in 1 .. Len(sl.item_list) :
      BareNotAllowed(i) =>
        /\ ret = "true"
        /\ Len(errors) = 1
        /\ errors[1].clause = "SELECT list"
        /\ errors[1].item.type = "FIELD_ITEM"
        /\ ~ Allowed(FieldOf(errors[1].item))
        /\ \E j \in 1 .. i :
             /\ \A k \in 1 .. j - 1 : ItemPasses(k)
             /\ ~ ItemPasses(j)
             /\ FieldOf(errors[1].item) \in ColumnsIn(sl.item_list[j])
        /\ (\A j \in 1 .. i - 1 : ItemPasses(j))
             => errors[1].item = sl.item_list[i]

\* a run stopped by a violation of the WHERE clause, with a bare column in
\* the SELECT list that is not allowed
C6_WitnessWhere ==
  /\ pc = "done" /\ Len(sl.group_list) > 0
  /\ "select" \notin steps /\ "where" \in steps
  /\ \E i \in 1 .. Len(sl.item_list) : BareNotAllowed(i)
  /\ Len(errors) = 1 /\ errors[1].clause = "WHERE clause"

\* a run with two bare columns in the SELECT list that are not allowed: the
\* violation names the first
C6_WitnessSecond ==
  /\ pc = "done" /\ Len(sl.group_list) > 0 /\ "select" \in steps
  /\ Len(sl.item_list) = 2
  /\ BareNotAllowed(1) /\ BareNotAllowed(2)
  /\ sl.item_list[1] # sl.item_list[2]
  /\ errors = << my_error(sl.item_list[1], "SELECT list") >>

\* a block with GROUP BY and WHERE failed on a bare column that is not the
\* first item of its SELECT list, the items before it being allowed
C6_Witness ==
  /\ pc = "done"
  /\ Len(sl.group_list) > 0
  /\ "select" \in steps
  /\ sl.conds # NoItem
  /\ \E i \in 2 .. Len(sl.item_list) :
       /\ BareNotAllowed(i)
       /\ \A j \in 1 .. i - 1 : ItemColumnsAllowed(j)
       /\ errors = << my_error(sl.item_list[i], "SELECT list") >>

NotGbField(it) == ~ IsGbField(it)

\* C7: once Group-By Collector has run, every column named by a GROUP BY item
\* that is a column reference, or a reference resolving to one, is allowed,
\* and the non-column GROUP BY items are in gb_items, in GROUP BY order; a
\* GROUP BY without any column item leaves every tmp_set as it was.
C7_GroupByCollected ==
  /\ ("collect" \in steps /\ Len(sl.group_list) > 0) =>
       /\ \A i \in 1 .. Len(sl.group_list) :
            IsGbField(sl.group_list[i])
              => Allowed(FieldOf(real_item(sl.group_list[i])))
       /\ gb_items = SelectSeq(sl.group_list, NotGbField)
  /\ (/\ prev.taken
      /\ prev.pc = "collect"
      /\ \A i \in 1 .. Len(sl.group_list) : NotGbField(sl.group_list[i]))
       => tmp_set = prev.tmp_set

\* a passing analysis whose GROUP BY holds a reference to a column and an
\* item that is not a column
C7_Witness ==
  /\ pc = "done"
  /\ ret = "false"
  /\ "collect" \in steps
  /\ \E i \in 1 .. Len(sl.group_list) : sl.group_list[i].type = "REF_ITEM"
  /\ gb_items # << >>

\* a "WHERE clause" violation was raised
WhereViolation ==
  \E i \in 1 .. Len(errors) : errors[i].clause = "WHERE clause"

SelectListPasses ==
  \A i \in 1 .. Len(sl.item_list) :
    excl_func_dep_on_grouping_fields(sl.item_list[i], tmp_set, gb_items).ok

HavingPasses ==
  \/ sl.having = NoItem
  \/ excl_func_dep_on_grouping_fields(sl.having, tmp_set, gb_items).ok

\* C8: on the non-trivial path check_func_dep returns pass exactly when
\* Equality Closure raised no violation and every SELECT-list expression and
\* the HAVING expression, when there is one, pass capability (a) against the
\* tmp_sets left by Equality Closure.
C8_PassIff ==
  (pc = "done" /\ "collect" \in steps) =>
    (ret = "false" <=> (~ WhereViolation /\ SelectListPasses /\ HavingPasses))

\* a block with WHERE and HAVING whose SELECT list passes and whose HAVING
\* does not
C8_Witness ==
  /\ pc = "done"
  /\ "collect" \in steps
  /\ sl.conds # NoItem
  /\ sl.having # NoItem
  /\ SelectListPasses /\ ~ HavingPasses
  /\ ret = "true"

\* the SELECT-list items that fail capability (a)
FailingItems ==
  {i \in 1 .. Len(sl.item_list) :
     ~ excl_func_dep_on_grouping_fields(sl.item_list[i], tmp_set, gb_items).ok}

FirstFailing == CHOOSE i \in FailingItems : \A j \in FailingItems : i <= j

\* C9: the Validator reports the first failing SELECT-list expression, in list
\* order, with clause "SELECT list"; HAVING is checked only when every
\* SELECT-list expression passed and its failure is reported with clause
\* "HAVING clause"; when both hold violations only the one of the SELECT list
\* is reported.
C9_ValidatorOrder ==
  (pc = "done" /\ "select" \in steps) =>
    IF FailingItems # {}
    THEN /\ errors =
              << my_error(real_item(excl_func_dep_on_grouping_fields(
                    sl.item_list[FirstFailing], tmp_set, gb_items).item_arg),
                  "SELECT list") >>
         /\ "having" \notin steps
         /\ ret = "true"
    ELSE /\ "having" \in steps
         /\ IF HavingPasses
            THEN errors = << >> /\ ret = "false"
            ELSE /\ errors =
                      << my_error(real_item(excl_func_dep_on_grouping_fields(
                            sl.having, tmp_set, gb_items).item_arg),
                          "HAVING clause") >>
                 /\ ret = "true"

\* two SELECT-list items and HAVING all fail
C9_Witness ==
  /\ pc = "done"
  /\ "select" \in steps
  /\ Cardinality(FailingItems) >= 2
  /\ ~ HavingPasses
  /\ Len(errors) = 1

\* HAVING alone fails
C9_WitnessHaving ==
  /\ pc = "done"
  /\ "select" \in steps
  /\ FailingItems = {}
  /\ ~ HavingPasses
  /\ Len(sl.item_list) >= 2
  /\ errors[1].clause = "HAVING clause"

\* C10: a run reports at most one violation, of clause "SELECT list",
\* "HAVING clause" or "WHERE clause"; the step that reports it ends the run
\* with failure, so no step is taken after it: no tmp_set changes, no further
\* conjunct is inspected, and after a "WHERE clause" violation neither the
\* loop nor the Validator runs.
C10_FirstViolationAborts ==
  /\ Len(errors) <= 1
  /\ \A i \in 1 .. Len(errors) :
       errors[i].clause \in {"SELECT list", "HAVING clause", "WHERE clause"}
  /\ prev.errors = << >>
  /\ errors # << >> =>
       /\ pc = "done" /\ ret = "true"
       /\ tmp_set = prev.tmp_set
       /\ cond_pos = prev.cond_pos
  /\ WhereViolation => steps \cap {"loop", "select", "having"} = {}

\* a "WHERE clause" violation on a conjunct that is not the last, in a block
\* whose SELECT list holds a column that is not allowed
C10_Witness ==
  /\ WhereViolation
  /\ pc = "done"
  /\ cond_pos < Len(Conjuncts(sl.conds))
  /\ \E i \in 1 .. Len(sl.item_list) : BareNotAllowed(i)

\* the bitmaps check_func_dep could have been entered with instead: any
\* content for the leaf tables of the block, the same content elsewhere
OtherEntrySets ==
  { [t \in Tables |-> IF t \notin LeafTables THEN tmp_set0[t]
                      ELSE IF f[t] = 0 THEN {}
                      ELSE IF f[t] = 1 THEN {1}
                      ELSE Cols(t)] :
      f \in [LeafTables -> 0 .. 2] }

\* verdict and leaf-table bitmaps of the finished run are those of a run
\* entered with the bitmaps ts0
SameOutcomeFrom(ts0) ==
  LET r == check_func_dep(sl, ts0)
  IN  /\ r.ret = ret
      /\ \A t \in LeafTables : r.ts[t] = tmp_set[t]

\* a second run on the block, entered with the bitmaps the first run left,
\* passes and leaves the leaf-table bitmaps as they are
RerunSame == ret = "false" => SameOutcomeFrom(tmp_set)

\* C11 as stated: a rerun of a passed block gives a pass and the same
\* Allowed-Sets, and verdict and final Allowed-Sets of the leaf tables never
\* depend on what the Allowed-Sets held when the run started.
C11_Original ==
  pc = "done" =>
    /\ RerunSame
    /\ \A ts0 \in OtherEntrySets : SameOutcomeFrom(ts0)

\* C11: a rerun of a passed block gives a pass and the same Allowed-Sets of
\* the leaf tables; for a block that is not skipped, verdict and final
\* Allowed-Sets of the leaf tables do not depend on what the Allowed-Sets of
\* the leaf tables held when the run started.
C11_Idempotence ==
  pc = "done" =>
    /\ RerunSame
    /\ "skip" \notin steps => \A ts0 \in OtherEntrySets : SameOutcomeFrom(ts0)

\* a block entered with every bit of t1 set passed through the WHERE
\* analysis and the validator and ends with a column of t1 not allowed
C11_Witness ==
  /\ pc = "done"
  /\ ret = "false"
  /\ "where" \in steps
  /\ tmp_set0["t1"] = Cols("t1")
  /\ tmp_set["t1"] # Cols("t1")
  /\ tmp_set["t1"] # {}

\* the outer context of the block is the target of an UPDATE: the unit has
\* an owning item, an outer select exists and it has no join
UpdateContext ==
  sl.master_unit_item /\ sl.outer_select /\ ~ sl.outer_join

\* C12: in the UPDATE context every column of every leaf table of the outer
\* select is allowed from the return of set_update_table_fields, which
\* precedes Group-By Collector, to the end of the analysis; outside that
\* context set_update_table_fields changes no Allowed-Set.
C12_UpdateSpecialCase ==
  /\ (UpdateContext /\ "update" \in steps) =>
       \A t \in Range(sl.outer_leaf_tables) : tmp_set[t] = Cols(t)
  /\ (~ UpdateContext /\ prev.taken /\ prev.pc = "update") =>
       tmp_set = prev.tmp_set

\* a subquery of an UPDATE went through Group-By Collector to its end, the
\* outer table entered not entirely allowed
C12_Witness ==
  /\ UpdateContext
  /\ pc = "done"
  /\ "collect" \in steps
  /\ tmp_set0["o1"] # Cols("o1")
  /\ tmp_set["o1"] = Cols("o1")

\* set_update_table_fields ran for a subquery whose outer select has a join
C12_WitnessNoUpdate ==
  /\ sl.master_unit_item /\ sl.outer_select /\ sl.outer_join
  /\ prev.taken /\ prev.pc = "update"
  /\ tmp_set["o1"] # Cols("o1")

\* the block has no leaf tables or is a placeholder block
Skipped ==
  \/ sl.leaf_tables = << >>
  \/ sl.select_number = UINT_MAX
  \/ sl.select_number = INT_MAX

\* C13: for a block with no leaf tables or a placeholder block,
\* check_func_dep returns pass at once and leaves every Allowed-Set and
\* every subquery context tag as it was.
C13_SkipFrame ==
  (Skipped /\ pc # "start") =>
    /\ pc = "done"
    /\ ret = "false"
    /\ errors = << >>
    /\ tmp_set = tmp_set0
    /\ \A i \in SubqIds : subq_ctx[i] = "NO_MATTER"
    /\ steps = {"skip"}

\* a placeholder block with a leaf table whose bits were all set on entry
\* and a subquery in its SELECT list has returned
C13_Witness ==
  /\ Skipped
  /\ pc = "done"
  /\ sl.leaf_tables # << >>
  /\ tmp_set0["t1"] = Cols("t1")
  /\ SubqueriesOf(sl.item_list[1]) # {}

\* the latest step was a round of the loop of step 4
RoundTaken == prev.taken /\ prev.pc = "loop"

\* a side of a deferred equality is dependency-satisfied: every column
\* collected from it is allowed
Satisfied(fs, ts) == FieldsAllowed(fs, ts)

\* C14 as stated: whatever was in the worklist at the start of a round is
\* out of it at the end of the round, with zero, one or both sides
\* dependency-satisfied.
C14_Original ==
  RoundTaken => eq_items = << >>

\* C14: a deferred equality with at least one side dependency-satisfied at
\* the start of a round is out of the worklist at the end of the round,
\* whether or not the extraction succeeded; an equality neither side of
\* which is dependency-satisfied stays in the worklist, and nothing else does.
C14_RoundRemoval ==
  RoundTaken =>
    /\ \A i \in 1 .. Len(prev.eq_items) :
         LET e == prev.eq_items[i]
         IN  /\ (\/ Satisfied(e.fields_l, prev.tmp_set)
                 \/ Satisfied(e.fields_r, prev.tmp_set))
                  => e \notin Range(eq_items)
             /\ (/\ ~ Satisfied(e.fields_l, tmp_set)
                 /\ ~ Satisfied(e.fields_r, tmp_set))
                  => e \in Range(eq_items)
    /\ \A e \in Range(eq_items) :
         /\ e \in Range(prev.eq_items)
         /\ ~ Satisfied(e.fields_l, prev.tmp_set)
         /\ ~ Satisfied(e.fields_r, prev.tmp_set)

\* a round removed an equality one side of which was satisfied, although
\* the extraction failed and no bit was set
C14_Witness ==
  /\ RoundTaken
  /\ \E i \in 1 .. Len(prev.eq_items) :
       LET e == prev.eq_items[i]
       IN  /\ Satisfied(e.fields_l, prev.tmp_set)
              # Satisfied(e.fields_r, prev.tmp_set)
           /\ e \notin Range(eq_items)
  /\ tmp_set = prev.tmp_set

\* a round left in the worklist an equality neither side of which was
\* satisfied
C14_WitnessKept ==
  /\ RoundTaken
  /\ eq_items # << >>

\* a table became entirely allowed in the latest step
TableCompleted ==
  \E t \in LeafTables : tmp_set[t] = Cols(t) /\ prev.tmp_set[t] # Cols(t)

\* C15 as stated: after every round the worklist is strictly smaller than
\* before it, or the loop ends with that round.
C15_Original ==
  RoundTaken => (Len(eq_items) < Len(prev.eq_items) \/ pc # "loop")

\* C15: after every round the worklist is strictly smaller than before it,
\* or Key Closure at the end of the round made a table entirely allowed,
\* or the loop ends with that round.
C15_ShrinkOrProgress ==
  RoundTaken =>
    \/ Len(eq_items) < Len(prev.eq_items)
    \/ /\ key_call.called
       /\ key_call.before = prev.tmp_set
       /\ key_call.after = tmp_set
       /\ TableCompleted
    \/ pc # "loop"

\* a round left the worklist as it was and the loop went on, Key Closure
\* having completed a table
C15_Witness ==
  /\ RoundTaken
  /\ pc = "loop"
  /\ eq_items = prev.eq_items
  /\ TableCompleted

\* a round shrank the worklist and the loop went on
C15_WitnessShrink ==
  /\ RoundTaken
  /\ pc = "loop"
  /\ Len(eq_items) < Len(prev.eq_items)

\* the number of columns of the tables tbls
RECURSIVE TotalColumns(_)
TotalColumns(tbls) ==
  IF tbls = << >> THEN 0 ELSE NumCols(Head(tbls)) + TotalColumns(Tail(tbls))

\* a bit that was clear before the latest step is set after it
BitGained ==
  \E t \in Tables : tmp_set[t] \ prev.tmp_set[t] # {}

\* C16: every round after which the loop of Equality Closure goes on has
\* set a bit that was clear, by an extraction or by Key Closure, and the
\* number of rounds never exceeds the number of columns plus one, so the
\* loop terminates.
C16_LoopTerminates ==
  /\ (RoundTaken /\ pc = "loop") => BitGained
  /\ rounds <= TotalColumns(sl.leaf_tables) + 1
  /\ pc = "loop" => (extracted /\ eq_items # << >>)

\* the loop went on after a first round and has left after a later one
C16_Witness ==
  /\ RoundTaken
  /\ pc = "select"
  /\ rounds >= 2

\* the permutations of 1 .. n
Perms(n) ==
  { f \in [1 .. n -> 1 .. n] : \A i, j \in 1 .. n : i # j => f[i] # f[j] }

\* the block with the top-level conjuncts of its WHERE clause in the order f
Reordered(q, f) ==
  LET cs == Conjuncts(q.conds)
  IN  [q EXCEPT !.conds = Where([i \in 1 .. Len(cs) |-> cs[f[i]]])]

\* the run has finished and Equality Closure raised no violation in it
ClosureReturned ==
  /\ pc = "done"
  /\ "where" \in steps
  /\ ~ WhereViolation

\* C17: for every other order of the top-level WHERE conjuncts in which no
\* WHERE violation is raised either, the analysis entered with the same
\* bitmaps ends with the same Allowed-Sets and the same verdict.
C17_OrderIndependence ==
  (ClosureReturned /\ sl.conds # NoItem) =>
    \A f \in Perms(Len(Conjuncts(sl.conds))) :
      LET r == check_func_dep(Reordered(sl, f), tmp_set0)
      IN  ~ r.where_err => (r.ts = tmp_set /\ r.ret = ret)

\* a run whose loop made the derived table allowed has finished, and its
\* conjuncts have another order that raises no WHERE violation either
C17_Witness ==
  /\ ClosureReturned
  /\ sl.conds # NoItem
  /\ rounds >= 1
  /\ tmp_set["d1"] = Cols("d1")
  /\ \E f \in Perms(Len(Conjuncts(sl.conds))) :
       /\ Reordered(sl, f).conds # sl.conds
       /\ ~ check_func_dep(Reordered(sl, f), tmp_set0).where_err

\* Equality Closure has returned without a violation
ClosureDone ==
  \/ pc \in {"select", "having"}
  \/ pc = "done" /\ "select" \in steps

\* no leaf table has a primary or unique key entirely allowed and a column
\* that is not allowed
KeyFixedPoint ==
  \A t \in LeafTables :
    (\E key \in UniqueKeys(t) : KeyColumns(key) \subseteq tmp_set[t])
      => tmp_set[t] = Cols(t)

\* C18: when Equality Closure has returned without a violation, the
\* Allowed-Sets are a fixed point of Key Closure, on every exit path.
C18_KeyFixedPoint ==
  ClosureDone => KeyFixedPoint

\* the loop has ended with an empty worklist, and the Key Closure that
\* follows the last round has completed t1
C18_Witness ==
  /\ RoundTaken
  /\ pc = "select"
  /\ eq_items = << >>
  /\ key_call.called /\ key_call.after = tmp_set
  /\ key_call.before["t1"] # Cols("t1")
  /\ tmp_set["t1"] = Cols("t1")

\* Equality Closure has returned with every equality deferred, t1 having
\* a key and an allowed column
C18_WitnessAllDeferred ==
  /\ pc = "select"
  /\ prev.pc = "where"
  /\ eq_items # << >>
  /\ eq_count = Len(eq_items)
  /\ UniqueKeys("t1") # {}
  /\ tmp_set["t1"] # {}

\* the top-level equalities of the WHERE clause neither side of which is or
\* contains a non-deterministic function call
DeterministicEqualities ==
  IF sl.conds = NoItem THEN {}
  ELSE { e \in Range(Conjuncts(sl.conds)) :
           /\ IsEquality(e)
           /\ ~ ContainsNonDeterministic(e.args[1])
           /\ ~ ContainsNonDeterministic(e.args[2]) }

\* the equality e could still extract against the bitmaps ts: one side is
\* closed with the comparison type of e, the other is one bare column that
\* is not allowed
CouldExtract(e, ts) ==
  \E i \in {1, 2} :
    /\ ClosedOver(e.args[i], ts)
    /\ e.args[i].cmp = e.cmp
    /\ BareOpen(e.args[3 - i], ts)

\* C19: when Equality Closure has returned without a violation, no
\* deterministic top-level equality has, against the final Allowed-Sets, one
\* side closed with the equality's comparison type and the other side one
\* bare column that is still not allowed.
C19_Complete ==
  ClosureDone => \A e \in DeterministicEqualities : ~ CouldExtract(e, tmp_set)

\* Equality Closure has returned after a round of the loop that made the
\* bare column of a deferred equality allowed
C19_Witness ==
  /\ RoundTaken
  /\ pc = "select"
  /\ prev.eq_items # << >>
  /\ \E e \in DeterministicEqualities :
       /\ \E i \in {1, 2} :
            /\ ClosedOver(e.args[i], tmp_set)
            /\ e.args[i].cmp = e.cmp
            /\ BareOpen(e.args[3 - i], prev.tmp_set)
            /\ Allowed(FieldOf(e.args[3 - i]))

\* the top-level equalities of the WHERE clause neither side of which is
\* itself a non-deterministic function call (the test of lines 407-410)
GuardedEqualities ==
  IF sl.conds = NoItem THEN {}
  ELSE { e \in Range(Conjuncts(sl.conds)) :
           /\ IsEquality(e)
           /\ ~ IsNonDeterministic(e.args[1])
           /\ ~ IsNonDeterministic(e.args[2]) }

\* the equality e justifies column c of table t from the columns J; with
\* `nested`, a non-deterministic call anywhere in e disqualifies it,
\* without, only one at the root of a side
JustifiedByEquality(e, t, c, J, nested) ==
  \E i \in {1, 2} :
    /\ \A f \in ColumnsIn(e.args[i]) : f.col \in J[f.table]
    /\ nested => e \in DeterministicEqualities
    /\ e.args[i].cmp = e.cmp
    /\ e.args[3 - i].type = "FIELD_ITEM"
    /\ FieldOf(e.args[3 - i]) = [table |-> t, col |-> c]

\* the columns one application of the rules adds to the justified columns J:
\* a table with a primary or unique key inside J, a materialized derived
\* table with a column in J, the bare column of a deterministic top-level
\* equality whose other side is closed over J with the equality's
\* comparison type
JustifiedStep(J, nested) ==
  [t \in Tables |->
     IF t \notin LeafTables THEN J[t]
     ELSE IF \E key \in UniqueKeys(t) : KeyColumns(key) \subseteq J[t]
     THEN Cols(t)
     ELSE IF is_materialized_derived(t) /\ J[t] # {}
     THEN Cols(t)
     ELSE J[t] \cup
          { c \in Cols(t) :
              \E e \in GuardedEqualities :
                JustifiedByEquality(e, t, c, J, nested) }]

\* the least fixed point of the rules above J
RECURSIVE JustifiedFrom(_, _)
JustifiedFrom(J, nested) ==
  LET K == JustifiedStep(J, nested)
  IN  IF K = J THEN J ELSE JustifiedFrom(K, nested)

\* the justified columns: the GROUP BY columns of the leaf tables, the
\* columns of the outer tables as they stand (allowed on entry, or marked
\* by the UPDATE special case), and what the rules derive from them
Justified(nested) ==
  JustifiedFrom(
    [t \in Tables |->
       IF t \notin LeafTables THEN tmp_set[t]
       ELSE { c \in Cols(t) :
                \E i \in 1 .. Len(sl.group_list) :
                  /\ IsGbField(sl.group_list[i])
                  /\ FieldOf(real_item(sl.group_list[i]))
                       = [table |-> t, col |-> c] }],
    nested)

\* the run is past the clearing, on the path with a GROUP BY or a HAVING
GroupingPath ==
  /\ "clear" \in steps
  /\ (Len(sl.group_list) > 0 \/ sl.having # NoItem)

\* C20: on the path with a GROUP BY or a HAVING, every column of a leaf
\* table that is allowed after the clearing is justified: it is in the least
\* fixed point of the rules (GROUP BY column, key, materialized derived
\* table, deterministic equality with a closed side of matching comparison
\* type, UPDATE special case).
C20_Justified ==
  GroupingPath => \A t \in LeafTables : tmp_set[t] \subseteq Justified(TRUE)[t]

\* the same with an equality counted as deterministic when neither side is
\* itself a non-deterministic call, as lines 407-410 test it
JustifiedUpToGuard ==
  GroupingPath => \A t \in LeafTables : tmp_set[t] \subseteq Justified(FALSE)[t]

\* the materialized derived tables and views among the leaf tables
DerivedLeafTables == {t \in LeafTables : is_materialized_derived(t)}

\* C21: whenever check_func_dep returns after collect_gb_fields has run (with
\* a pass, a WHERE-clause violation or a Validator violation), the bitmap of
\* every materialized derived table among the leaf tables is entirely clear
\* or entirely set
C21_DerivedWhole ==
  (pc = "done" /\ "collect" \in steps) =>
    \A t \in DerivedLeafTables : tmp_set[t] = {} \/ tmp_set[t] = Cols(t)

\* a finished run where d1 is entirely allowed through the one column of it
\* in the GROUP BY and d2 through one column extracted from an equality
C21_Witness ==
  /\ pc = "done" /\ "collect" \in steps
  /\ DerivedLeafTables = {"d1", "d2"}
  /\ {g \in Range(sl.group_list) : g.table # "t1"} = {col_dx}
  /\ where_set["d1"] = Cols("d1") /\ where_set["d2"] = {}
  /\ sl.conds = EqF(col_ex, col_a)
  /\ tmp_set["d2"] = Cols("d2")

\* a finished run that leaves a derived table entirely clear
C21_WitnessClear ==
  /\ pc = "done" /\ "collect" \in steps
  /\ DerivedLeafTables = {"d1", "d2"}
  /\ tmp_set["d1"] = Cols("d1") /\ tmp_set["d2"] = {}

\* collect_gb_fields has just returned after calling
\* check_allowed_materialized_derived (line 223): key_call.after holds the
\* bitmaps the call started with, MatDerivedOf the list it started with
DerivedCall ==
  /\ prev.taken /\ prev.pc = "collect"
  /\ Len(sl.group_list) > 0

PendingBefore == Range(MatDerivedOf(sl.leaf_tables))

\* C22: check_allowed_materialized_derived sets every bit of each table of
\* the pending list that has a bit set and removes it from the list, leaves
\* a table whose bitmap is clear and its membership as they are, returns true
\* exactly when a table was removed, and touches no table outside the list
C22_DerivedClosure ==
  DerivedCall =>
    LET before == key_call.after
        d == check_allowed_materialized_derived(MatDerivedOf(sl.leaf_tables),
                                                before)
    IN  /\ d.ts = tmp_set /\ d.mat_derived = mat_derived
        /\ \A t \in PendingBefore :
             IF before[t] # {}
             THEN tmp_set[t] = Cols(t) /\ t \notin Range(mat_derived)
             ELSE tmp_set[t] = {} /\ t \in Range(mat_derived)
        /\ \A t \in Tables \ PendingBefore : tmp_set[t] = before[t]
        /\ d.ret <=> (\E t \in PendingBefore : t \notin Range(mat_derived))

\* a call with two pending tables: d1 has one bit set and is completed and
\* removed, d2 is clear and stays
C22_Witness ==
  /\ DerivedCall
  /\ PendingBefore = {"d1", "d2"}
  /\ key_call.after["d1"] = {1} /\ key_call.after["d2"] = {}
  /\ tmp_set["d1"] = Cols("d1") /\ mat_derived = << "d2" >>

\* a call that removes nothing and returns false
C22_WitnessNone ==
  /\ DerivedCall
  /\ PendingBefore = {"d1", "d2"}
  /\ mat_derived = << "d1", "d2" >>
  /\ ~ check_allowed_materialized_derived(MatDerivedOf(sl.leaf_tables),
                                          key_call.after).ret

\* the side x of an equality is neither closed nor reducible to a non-empty
\* column set, and its classification names a column that is not allowed
Unusable(x, ts) ==
  LET r == excl_func_dep_from_equalities(x, sl, ts)
  IN  ~ r.dep /\ r.fields = << >> /\ r.item_arg # NoItem

\* the column named by the classification of the side x
WitnessOf(x, ts) == real_item(excl_func_dep_from_equalities(x, sl, ts).item_arg)

\* the analysis has failed with one violation of the WHERE clause naming it
WhereErrorNames(it) ==
  /\ pc = "done" /\ ret = "true"
  /\ errors = << my_error(it, "WHERE clause") >>

\* the equality with its two sides swapped
SwapSides(e) == [e EXCEPT !.args = << e.args[2], e.args[1] >>]

\* the columns the swapped equality may make check_equality_on_new_func_dep
\* name, from the same bitmaps and list; empty when it reports no error
SwappedReports ==
  LET s == check_equality_on_new_func_dep(SwapSides(PrevEq), sl,
                                          prev.tmp_set, prev.eq_items)
  IN  {real_item(a) : a \in s.item_args}

C23_WitnessShared ==
  /\ EqStepTaken /\ PrevEq = EqF(Plus(col_b, col_ox), col_oy)
  /\ ~ Unusable(PrevEq.args[1], prev.tmp_set)
  /\ WitnessOf(PrevEq.args[1], prev.tmp_set) = col_ox
  /\ Unusable(col_oy, prev.tmp_set)
  /\ pc = "done" /\ ret = "true" /\ Len(errors) = 1

\* an equality whose two sides are unusable with different witnesses
C23_WitnessBoth ==
  /\ EqStepTaken /\ PrevEq = EqF(col_ox, col_oy)
  /\ Unusable(col_ox, prev.tmp_set) /\ Unusable(col_oy, prev.tmp_set)
  /\ WhereErrorNames(col_ox)

\* the equality passes the test of lines 407-411 and is classified
Classified(e) ==
  ~ IsNonDeterministic(e.args[1]) /\ ~ IsNonDeterministic(e.args[2])

\* an entry of the list holds two non-empty column sets, one of size one
WellFormedEntry(x) ==
  /\ x.fields_l # << >> /\ x.fields_r # << >>
  /\ Len(x.fields_l) = 1 \/ Len(x.fields_r) = 1

\* the classification of the claim: neither side closed, both sides with a
\* non-empty column set, one side of exactly one column
DeferralCase(l, r) ==
  /\ ~ l.dep /\ ~ r.dep
  /\ l.fields # << >> /\ r.fields # << >>
  /\ Len(l.fields) = 1 \/ Len(r.fields) = 1

\* C24 as stated: every top-level equality is deferred exactly in that case
C24_Original ==
  /\ \A i \in 1 .. Len(eq_items) : WellFormedEntry(eq_items[i])
  /\ EqStepTaken =>
       LET l == excl_func_dep_from_equalities(PrevEq.args[1], sl, prev.tmp_set)
           r == excl_func_dep_from_equalities(PrevEq.args[2], sl, prev.tmp_set)
           info == Item_equal_fd_info(PrevEq, l.fields, r.fields)
       IN  /\ IF DeferralCase(l, r)
              THEN eq_items = Append(prev.eq_items, info)
              ELSE eq_items = prev.eq_items
           /\ (\/ l.dep /\ r.dep
               \/ Len(l.fields) # 1 /\ Len(r.fields) # 1) =>
                 tmp_set = prev.tmp_set /\ eq_items = prev.eq_items

\* C24: a top-level equality neither side of which is itself a
\* non-deterministic function call is added to the deferred list exactly
\* when neither side is closed, both sides yield a non-empty column set and
\* at least one side yields exactly one column; an equality with a side that
\* is itself a non-deterministic call is never deferred and sets no bit;
\* every entry of the list holds two non-empty column sets of which one has
\* size one; an equality with both sides closed, or with neither side of
\* exactly one column, sets no bit and is not deferred
C24_Deferral ==
  /\ \A i \in 1 .. Len(eq_items) : WellFormedEntry(eq_items[i])
  /\ (EqStepTaken /\ ~ Classified(PrevEq)) =>
       /\ eq_items = prev.eq_items /\ tmp_set = prev.tmp_set
       /\ errors = << >>
  /\ (EqStepTaken /\ Classified(PrevEq)) =>
       LET l == excl_func_dep_from_equalities(PrevEq.args[1], sl, prev.tmp_set)
           r == excl_func_dep_from_equalities(PrevEq.args[2], sl, prev.tmp_set)
           info == Item_equal_fd_info(PrevEq, l.fields, r.fields)
       IN  /\ IF DeferralCase(l, r)
              THEN /\ eq_items = Append(prev.eq_items, info)
                   /\ tmp_set = prev.tmp_set
              ELSE eq_items = prev.eq_items
           /\ (\/ l.dep /\ r.dep
               \/ Len(l.fields) # 1 /\ Len(r.fields) # 1) =>
                 tmp_set = prev.tmp_set /\ eq_items = prev.eq_items

\* an equality was deferred with one column on the left and two on the right
C24_Witness ==
  /\ EqStepTaken /\ Classified(PrevEq)
  /\ Len(eq_items) = Len(prev.eq_items) + 1
  /\ Len(eq_items[Len(eq_items)].fields_l) = 1
  /\ Len(eq_items[Len(eq_items)].fields_r) = 2

\* an equality with two columns on each side, none allowed, was discarded
C24_WitnessDiscarded ==
  /\ EqStepTaken /\ Classified(PrevEq)
  /\ PrevEq = EqF(Plus(col_a, col_b), Plus(col_b, col_dx))
  /\ prev.tmp_set["t1"] \cap {1, 2} = {} /\ prev.tmp_set["d1"] = {}
  /\ eq_items = prev.eq_items /\ tmp_set = prev.tmp_set /\ errors = << >>

\* an equality with a non-deterministic call as one side was skipped
C24_WitnessSkipped ==
  /\ EqStepTaken /\ ~ Classified(PrevEq)
  /\ PrevEq = EqF(col_dx, Udf(col_b))
  /\ prev.tmp_set["d1"] = {} /\ 2 \notin prev.tmp_set["t1"]
  /\ eq_items = prev.eq_items /\ tmp_set = prev.tmp_set

\* the top-level equalities of the WHERE clause
TopEqualities ==
  IF sl.conds = NoItem THEN {}
  ELSE {i \in 1 .. Len(Conjuncts(sl.conds)) : IsEquality(Conjuncts(sl.conds)[i])}

\* the first pass has ended without a violation and every equality it saw
\* is in the deferred list
AllDeferred ==
  /\ "where" \in steps /\ sl.conds # NoItem
  /\ pc \in {"loop", "select", "having"} \/ (pc = "done" /\ "select" \in steps)
  /\ TopEqualities # {}
  /\ \A i \in TopEqualities :
       \E k \in 1 .. Len(eq_items) : eq_items[k].equal = Conjuncts(sl.conds)[i]
  /\ Len(eq_items) = Cardinality(TopEqualities)

\* C25: if every top-level equality seen in the first pass was deferred, the
\* Equality Closure returns without a round of the loop of step 4 and
\* without a call of Key Closure, with the bitmaps it was entered with
C25_AllDeferredStops ==
  AllDeferred =>
    /\ pc # "loop"
    /\ "loop" \notin steps /\ rounds = 0
    /\ "keys" \notin steps
    /\ tmp_set = where_set

\* the WHERE analysis has returned with its two equalities deferred, on a
\* table that has a unique key and an allowed column
C25_Witness ==
  /\ AllDeferred /\ pc = "select"
  /\ Len(eq_items) = 2
  /\ Len(Conjuncts(sl.conds)) = 2
  /\ UniqueKeys("t1") # {}
  /\ tmp_set["t1"] # {}

\* the latest step processed a top-level conjunct that is not an equality
\* (or a WHERE clause that is one predicate, neither equality nor AND)
OtherStepTaken ==
  /\ prev.taken
  /\ prev.pc = "where"
  /\ sl.conds # NoItem
  /\ prev.cond_pos <= Len(Conjuncts(sl.conds))
  /\ ~ IsEquality(Conjuncts(sl.conds)[prev.cond_pos])

PrevOther == Conjuncts(sl.conds)[prev.cond_pos]

\* C26: a top-level WHERE conjunct that is not an equality sets no bit and is
\* not deferred; it raises a "WHERE clause" violation exactly when its check
\* fails and yields a witness, naming the witness, and otherwise the pass
\* goes on with the next conjunct
C26_NonEquality ==
  OtherStepTaken =>
    LET r == excl_func_dep_from_equalities(PrevOther, sl, prev.tmp_set)
    IN  /\ tmp_set = prev.tmp_set
        /\ eq_items = prev.eq_items
        /\ IF ~ r.dep /\ r.item_arg # NoItem
           THEN WhereErrorNames(real_item(r.item_arg))
           ELSE /\ errors = << >> /\ ret = "unset"
                /\ pc = "where" /\ cond_pos = prev.cond_pos + 1

\* a conjunct over a column of the block that is not allowed was processed:
\* its check fails without a witness and the pass goes on
C26_Witness ==
  /\ OtherStepTaken
  /\ PrevOther = Gt(col_b) /\ 2 \notin prev.tmp_set["t1"]
  /\ ~ excl_func_dep_from_equalities(PrevOther, sl, prev.tmp_set).dep
  /\ pc = "where" /\ cond_pos = prev.cond_pos + 1 /\ errors = << >>

\* a conjunct over a column of the outer select that is not allowed was
\* processed and raised the violation
C26_WitnessError ==
  /\ OtherStepTaken
  /\ PrevOther = Gt(col_oy)
  /\ WhereErrorNames(col_oy)

\* C27: the list of non-column GROUP BY expressions built by
\* collect_gb_fields is the list consulted in the loop of step 4: a side of a
\* deferred equality that matches one of these expressions is treated as
\* closed there, so a round makes the bare column on the other side allowed
\* when the comparison types agree
C27_GbItemsConsulted ==
  RoundTaken =>
    \A k \in 1 .. Len(prev.eq_items) :
      LET e == prev.eq_items[k].equal
      IN  \A i \in {1, 2} :
            (/\ e.args[i] \in Range(gb_items)
             /\ e.args[i].cmp = e.cmp
             /\ BareOpen(e.args[3 - i], prev.tmp_set)) =>
              Allowed(FieldOf(e.args[3 - i]))

\* in every round a side of a deferred equality counts as satisfied by the
\* bitmaps of its columns alone: an entry with a side among the non-column
\* GROUP BY expressions, a column of that side not allowed and the column
\* of the other side not allowed stays in the list
GbItemsNotConsulted ==
  RoundTaken =>
    \A k \in 1 .. Len(prev.eq_items) :
      LET x == prev.eq_items[k]
      IN  (/\ \E i \in {1, 2} : x.equal.args[i] \in Range(gb_items)
           /\ ~ FieldsAllowed(x.fields_l, prev.tmp_set)
           /\ ~ FieldsAllowed(x.fields_r, prev.tmp_set)) =>
            x \in Range(eq_items)

\* a round has run over an equality with a side that is a GROUP BY expression
GbItemsRound ==
  /\ RoundTaken
  /\ gb_items = << Plus(col_a, col_b) >>
  /\ prev.eq_items = << Item_equal_fd_info(EqF(col_dy, Plus(col_a, col_b)),
                                            << FieldOf(col_dy) >>,
                                            << FieldOf(col_a), FieldOf(col_b) >>) >>
  /\ eq_items = prev.eq_items
  /\ tmp_set["d1"] = {}

====
